---- MODULE Spec2Model ----
(***************************************************************************)
(* The archive session of modorganizer-archive (ArchiveImpl, bit7z build): *)
(* open / close / cancel / extract on one session, the entry catalog with  *)
(* its output-path annotations, the engine handles the session allocates,  *)
(* the engine's callbacks during extractTo (file change, progress,         *)
(* password), the relocation of staged files into the output directory and *)
(* the messages handed to the error callback; and the close of the earlier *)
(* archive.cpp, which keeps the address of the reader it deleted.          *)
(***************************************************************************)
EXTENDS Integers, Sequences, FiniteSets, TLC

\* ------------------------------------------------------------------ bounds
\* BitArchiveReader objects alive at once (held or leaked)
MaxHandles == 2
\* output paths the caller has attached to the entries of the catalog
MaxOut == 2
\* progress ticks the engine issues during one extractTo
MaxTicks == 2
\* password requests the engine makes between an open and the next close
MaxAsks == 2
\* descriptors the process lets a FileBase object hold open at once
MaxFds == 2
\* FileBase objects alive at once
MaxFiles == 2
\* short reads (fewer bytes than requested, more than none) during one Read
MaxShortReads == 2

\* --------------------------------------------------------------- constants
\* nullptr
NULL == 0

\* the library locations the constructor probes, in order
libraryPaths == <<"/usr/lib64/7z.so", "/usr/lib/7z.so", "lib/7z.so">>

\* ---------------------------------------------------- the world outside
\* Paths a caller can hand to open: two archives, a path that does not
\* exist and a directory.
ArchiveNames == {"A", "B"}
OpenPaths == ArchiveNames \cup {"missing", "dir"}

\* A variant of exists that finds every path.
exists_Always(p) == TRUE

exists(p) == p # "missing"
is_directory(p) == p = "dir"

\* What the engine enumerates for an archive: path, size, crc, isDir.
\* Paths are sequences of components.
Items(arc) ==
  IF arc = "A"
    THEN << [path |-> <<"a">>, size |-> 10, crc |-> 11, dir |-> FALSE],
            [path |-> <<"d">>, size |-> 0, crc |-> 0, dir |-> TRUE] >>
    ELSE << [path |-> <<"b">>, size |-> 20, crc |-> 22, dir |-> FALSE] >>

RECURSIVE SumSizes(_, _)
SumSizes(items, n) ==
  IF n = 0 THEN 0 ELSE items[n].size + SumSizes(items, n - 1)

\* BitArchiveReader::size(): total uncompressed size of the archive
ArchiveSize(arc) == SumSizes(Items(arc), Len(Items(arc)))

\* Where the engine can raise a BitException while `p` is opened: nowhere,
\* in the reader's constructor, in size(), in itemsCount(), or while item k
\* is read. A path that is no archive never reaches the engine.
NoFault == [at |-> "none", k |-> 0]
OpenFaults(p) ==
  IF p \notin ArchiveNames THEN {NoFault}
  ELSE {NoFault} \cup {[at |-> a, k |-> 0] : a \in {"ctor", "size", "count"}}
                 \cup {[at |-> "item", k |-> k] : k \in 1..Len(Items(p))}

\* The Qt archive.cpp reads item.path() a second time for each item, when
\* it enters the item in m_FileMap: the engine can raise there as well,
\* after item k was appended to the catalog.
OpenFaults_003(p) ==
  IF p \notin ArchiveNames THEN {NoFault}
  ELSE OpenFaults(p) \cup {[at |-> "map", k |-> k] : k \in 1..Len(Items(p))}

\* Output paths a caller can request, relative to the output directory.
OutPaths == { <<"x">>, <<"d">>, <<"d", "x">> }

VARIABLES
  m_Valid,              \* the 7z library was loaded
  m_LastError,
  m_shouldCancel,       \* std::atomic<bool>
  m_ArchivePtr,         \* handle id, or NULL
  m_Total,
  m_FileList,           \* sequence of FileDataImpl
  m_ProgressCallback,   \* TRUE iff the stored std::function is non-empty
  m_FileChangeCallback,
  m_ErrorCallback,
  m_PasswordCallback,
  m_Password,           \* native_string: the cached password
  heap,                 \* ids of the BitArchiveReader objects not deleted
  reader,               \* the object m_ArchivePtr points to
  pc,                   \* where the extract call is: idle, engine, catch, crashed
  indices,              \* the index list handed to extractTo
  staged,               \* how many of `indices` the engine has written to tmpDir
  fs,                   \* the output directory: path -> [kind, data]
  opened,               \* the last open succeeded and close was not called since
  asked,                \* the password requests since the reader was created
  call,                 \* the call in progress or last returned, and what it did
  m_LogCallback,        \* the log sink
  m_FileMap,            \* path -> engine index (the Qt version of archive.cpp)
  openCallback,         \* the CArchiveOpenCallback object
  request,              \* the last request made to it and what it answered
  m_fd,                 \* FileBase::m_fd of each live object: a number, or -1
  fds,                  \* the open descriptors, each with the object it belongs to
  io                    \* the last FileBase / FileIn call and what it did

vars ==
  <<m_Valid, m_LastError, m_shouldCancel, m_ArchivePtr, m_Total, m_FileList,
    m_ProgressCallback, m_FileChangeCallback, m_ErrorCallback,
    m_PasswordCallback, m_Password, heap, reader, pc, indices, staged, fs,
    opened, asked, call, m_LogCallback, m_FileMap, openCallback, request,
    m_fd, fds, io>>

\* What no member function of the session of the latest archive.cpp touches.
otherVars == <<m_FileMap, openCallback, request, m_fd, fds, io>>

\* What no member function of FileBase and FileIn touches.
nonFileVars ==
  <<m_Valid, m_LastError, m_shouldCancel, m_ArchivePtr, m_Total, m_FileList,
    m_ProgressCallback, m_FileChangeCallback, m_ErrorCallback,
    m_PasswordCallback, m_Password, heap, reader, pc, indices, staged, fs,
    opened, asked, call, m_LogCallback, m_FileMap, openCallback, request>>

\* What no member function of the open-callback adapter touches.
sessionVars ==
  <<m_Valid, m_LastError, m_shouldCancel, m_ArchivePtr, m_Total, m_FileList,
    m_ProgressCallback, m_FileChangeCallback, m_ErrorCallback,
    m_PasswordCallback, m_Password, heap, reader, pc, indices, staged, fs,
    opened, asked, call, m_LogCallback, m_FileMap, m_fd, fds, io>>

Range(s) == {s[i] : i \in DOMAIN s}

\* ------------------------------------------------------------ file system
\* The output directory is the root <<>>; every other path is below it.
RECURSIVE Prefixes(_)
Prefixes(p) ==
  IF p = <<>> THEN {<<>>} ELSE {p} \cup Prefixes(SubSeq(p, 1, Len(p) - 1))

FsPaths == UNION {Prefixes(p) : p \in OutPaths}

Absent == [kind |-> "none", data |-> 0]
Dir == [kind |-> "dir", data |-> 0]
File(data) == [kind |-> "file", data |-> data]
\* A file that holds the first bytes of the content `data`, not all of them
\* and not none.
Truncated(data) == [kind |-> "file", data |-> 0 - data]

has_parent_path(p) == Len(p) > 1
parent_path(p) == SubSeq(p, 1, Len(p) - 1)

\* ------------------------------------------------------------- the entries
\* `h` stands for the identity of the object: the handle it was read from
FileDataImpl(item, h) ==
  [path |-> item.path, size |-> item.size, crc |-> item.crc, dir |-> item.dir,
   out |-> <<>>, h |-> h]

\* A variant of isEmpty that calls no entry empty: every entry of the
\* catalog would be selected for extraction.
isEmpty_NeverEmpty(fileData) == FALSE

isEmpty(fileData) == fileData.out = <<>>

RECURSIVE CountOut(_, _)
CountOut(list, n) ==
  IF n = 0 THEN 0 ELSE Len(list[n].out) + CountOut(list, n - 1)

\* --------------------------------------------------------- call bookkeeping
\* What is remembered of a call: what it started from (preOpen, preHandle,
\* preFs, and whether the call before it was an extract that returned
\* true), what the environment did to it (fault, tmpFail, fsFault), and
\* what it did (callbacks invoked, calls made through m_ArchivePtr, the
\* answers of the progress relay, the file-system calls that succeeded, the
\* path handed to open and whether open looked it up in the file system, the
\* message handed to the error callback, a delete of an object already
\* deleted, and the staging directory: "none" if the call created none,
\* "exists" from create_directory on; nothing in extract removes it), and
\* the log sink the call invoked, the callback handed to setLogCallback,
\* how often the call invoked extractTo, the byte count of the engine's
\* last progress tick, and the arguments last handed to the caller's
\* progress and file-change callbacks.
NoMessage == [text |-> "", args |-> <<>>]

NoCall ==
  [op |-> "none", ret |-> "none", preOpen |-> FALSE, preHandle |-> NULL,
   preFs |-> [p \in FsPaths |-> Absent], afterExtractOk |-> FALSE,
   fault |-> "none", tmpFail |-> FALSE, fsFault |-> FALSE,
   nProgress |-> 0, nFileChange |-> 0, nError |-> 0,
   engineCall |-> FALSE, extractTo |-> FALSE, cancelledTick |-> FALSE,
   stop |-> FALSE, threw |-> FALSE, flagAtCatch |-> FALSE, log |-> <<>>,
   archiveName |-> "", probed |-> FALSE, message |-> NoMessage,
   doubleDelete |-> FALSE, tmpDir |-> "none", logSink |-> "none",
   logCallback |-> "none", nExtractTo |-> 0, tick |-> 0,
   progress |-> <<>>, fileChange |-> <<>>, emptyCallback |-> "none",
   wildDelete |-> FALSE, openTotal |-> 0, path |-> <<>>]

NewCall(op) ==
  [NoCall EXCEPT
     !.op = op, !.ret = "running",
     !.preHandle = IF op = "open" THEN m_ArchivePtr ELSE @,
     !.preOpen = (op = "extract" /\ opened),
     !.preFs = IF op = "extract" THEN fs ELSE @,
     \* what the last open that returned true assigned to m_Total (0: none)
     !.openTotal = call.openTotal,
     !.afterExtractOk =
        (op = "extract" /\ call.op = "extract" /\ call.ret = "true")]

\* ---------------------------------------------------------------- logging
\* A std::function that holds no target.
EmptyFunction == "empty"

\* ArchiveImpl::DefaultLogCallback: the sink that does nothing
DefaultLogCallback == "DefaultLogCallback"

\* What a caller can hand to setLogCallback.
LogCallbacks == {EmptyFunction, "log"}

\* m_LogCallback(LogLevel::Error, ...) as the last thing call c does before
\* it returns: calling an empty std::function throws std::bad_function_call.
Log(c) ==
  [c EXCEPT !.logSink = m_LogCallback,
            !.ret = IF m_LogCallback = EmptyFunction THEN "exception" ELSE @]

\* ------------------------------------------------------------ construction
\* ArchiveImpl::ArchiveImpl: probes libraryPaths in order; `loadable` is the
\* set of positions at which Bit7zLibrary's constructor does not throw.
\* A variant of the constructor that records no error when no library could
\* be loaded.
Constructed_NoError(loadable) ==
  /\ m_Valid = (\E i \in DOMAIN libraryPaths : i \in loadable)
  /\ m_LastError = "ERROR_NONE"
  /\ m_shouldCancel = FALSE
  /\ m_ArchivePtr = NULL
  /\ m_Total = 0
  /\ m_FileList = <<>>
  /\ m_ProgressCallback = FALSE
  /\ m_FileChangeCallback = FALSE
  /\ m_ErrorCallback = FALSE
  /\ m_PasswordCallback = FALSE
  /\ m_Password = ""
  /\ m_LogCallback = DefaultLogCallback

Constructed(loadable) ==
  /\ m_Valid = (\E i \in DOMAIN libraryPaths : i \in loadable)
  /\ m_LastError = IF \E i \in DOMAIN libraryPaths : i \in loadable
                     THEN "ERROR_NONE" ELSE "ERROR_LIBRARY_NOT_FOUND"
  /\ m_shouldCancel = FALSE
  /\ m_ArchivePtr = NULL
  /\ m_Total = 0
  /\ m_FileList = <<>>
  /\ m_ProgressCallback = FALSE
  /\ m_FileChangeCallback = FALSE
  /\ m_ErrorCallback = FALSE
  /\ m_PasswordCallback = FALSE
  /\ m_Password = ""
  /\ m_LogCallback = DefaultLogCallback

\* ------------------------------------------------------------------- heap
NoReader ==
  [arc |-> "none", passwordCallback |-> FALSE, progressCallback |-> FALSE,
   fileCallback |-> FALSE]

\* new BitArchiveReader(...): the object, with no callback installed yet
BitArchiveReader(arc) == [NoReader EXCEPT !.arc = arc]

\* the address operator new returns: one that no live object has
NewHandle(hp) == CHOOSE h \in 1..MaxHandles :
                   h \notin hp /\ \A g \in 1..(h - 1) : g \in hp

\* delete p: deleting nullptr does nothing
Delete(hp, p) == hp \ {p}

\* No CArchiveOpenCallback has been constructed, and none has been asked
\* anything.
NoOpenCallback ==
  [constructed |-> FALSE, m_PasswordCallback |-> FALSE, m_Password |-> "",
   m_Path |-> <<>>, m_FileInfo |-> [path |-> <<>>, isDir |-> FALSE, fileSize |-> 0],
   m_SubArchiveMode |-> FALSE, m_SubArchiveName |-> ""]

NoRequest ==
  [op |-> "none", arg |-> "", hr |-> "none", value |-> "none",
   stream |-> "none", invoked |-> 0, pushed |-> "none", now |-> "none"]

\* No FileBase call has been made.
NoIo ==
  [op |-> "none", self |-> 0, ret |-> "none", preFd |-> -1,
   preFds |-> [d \in {} |-> 0],
   syscalls |-> <<>>, requested |-> 0, size |-> 0, processedSize |-> 0,
   parts |-> <<>>, lastReq |-> 0, failed |-> FALSE, short |-> 0]

Init ==
  /\ \E loadable \in SUBSET (DOMAIN libraryPaths) : Constructed(loadable)
  /\ heap = {}
  /\ reader = NoReader
  /\ pc = "idle"
  /\ indices = <<>>
  /\ staged = 0
  /\ fs = [p \in FsPaths |-> Absent]
  /\ opened = FALSE
  /\ asked = <<>>
  /\ call = IF m_Valid THEN NoCall ELSE Log(NoCall)
  /\ m_FileMap = <<>>
  /\ openCallback = NoOpenCallback
  /\ request = NoRequest
  /\ m_fd = [o \in {1} |-> -1]
  /\ fds = [d \in {} |-> 0]
  /\ io = NoIo

\* ---------------------------------------------------------------- catalog
clearFileList == <<>>

\* A variant of resetFileList that does not clear the catalog first.
resetFileList_Append(h, arc, n) ==
  m_FileList \o [i \in 1..n |-> FileDataImpl(Items(arc)[i], h)]

\* resetFileList: the catalog after `n` items were read from handle h
resetFileList(h, arc, n) ==
  [i \in 1..n |-> FileDataImpl(Items(arc)[i], h)]

\* ------------------------------------------------------- setLogCallback
\* A variant of setLogCallback that stores whatever it is given.
setLogCallback_Store(logCallback) ==
  /\ pc = "idle"
  /\ m_LogCallback' = logCallback
  /\ call' = [NewCall("setLogCallback") EXCEPT !.ret = "void",
                                               !.logCallback = logCallback]
  /\ UNCHANGED <<m_Valid, m_LastError, m_shouldCancel, m_ArchivePtr, m_Total,
                 m_FileList, m_ProgressCallback, m_FileChangeCallback,
                 m_ErrorCallback, m_PasswordCallback, m_Password, heap, reader,
                 pc, indices, staged, fs, opened, asked, otherVars>>

\* ArchiveImpl::setLogCallback: an empty callback is replaced by the
\* default sink.
setLogCallback(logCallback) ==
  /\ pc = "idle"
  /\ m_LogCallback' = IF logCallback # EmptyFunction THEN logCallback
                      ELSE DefaultLogCallback
  /\ call' = [NewCall("setLogCallback") EXCEPT !.ret = "void",
                                               !.logCallback = logCallback]
  /\ UNCHANGED <<m_Valid, m_LastError, m_shouldCancel, m_ArchivePtr, m_Total,
                 m_FileList, m_ProgressCallback, m_FileChangeCallback,
                 m_ErrorCallback, m_PasswordCallback, m_Password, heap, reader,
                 pc, indices, staged, fs, opened, asked, otherVars>>

\* ------------------------------------------------------------------- open
\* if (!m_Valid): the guard at the top of open and of extract
\* A variant of the guard of open that lets a session without the library
\* go on to the engine.
LibraryMissing_Unchecked == FALSE

LibraryMissing == ~m_Valid

\* ArchiveImpl::open(archiveName, passwordCallback); `fault` says where, if
\* anywhere, the engine raises a BitException.
open(archiveName, passwordCallback, fault) ==
  /\ pc = "idle"
  /\ LET c == [NewCall("open") EXCEPT !.archiveName = archiveName] IN
     IF LibraryMissing THEN
       /\ call' = Log([c EXCEPT !.ret = "false"])
       /\ opened' = FALSE
       /\ UNCHANGED <<m_Valid, m_LastError, m_shouldCancel, m_ArchivePtr,
                      m_Total, m_FileList, m_ProgressCallback,
                      m_FileChangeCallback, m_ErrorCallback,
                      m_PasswordCallback, heap, reader, asked>>
     ELSE IF ~exists(archiveName) \/ is_directory(archiveName) THEN
       /\ m_LastError' = "ERROR_ARCHIVE_NOT_FOUND"
       /\ call' = Log([c EXCEPT !.ret = "false", !.probed = TRUE])
       /\ opened' = FALSE
       /\ UNCHANGED <<m_Valid, m_shouldCancel, m_ArchivePtr, m_Total, m_FileList,
                      m_ProgressCallback, m_FileChangeCallback, m_ErrorCallback,
                      m_PasswordCallback, heap, reader, asked>>
     ELSE IF fault.at = "ctor" THEN
       \* the constructor threw: nothing was assigned to m_ArchivePtr
       /\ m_LastError' = "ERROR_FAILED_TO_OPEN_ARCHIVE"
       /\ call' = Log([c EXCEPT !.ret = "false", !.fault = fault.at,
                                  !.probed = TRUE])
       /\ opened' = FALSE
       /\ UNCHANGED <<m_Valid, m_shouldCancel, m_ArchivePtr, m_Total, m_FileList,
                      m_ProgressCallback, m_FileChangeCallback, m_ErrorCallback,
                      m_PasswordCallback, heap, reader, asked>>
     ELSE
       /\ Cardinality(heap) < MaxHandles
       /\ LET h == NewHandle(heap) IN
          \* the pointer is overwritten; the object it pointed to stays alive
          /\ m_ArchivePtr' = h
          /\ heap' = heap \cup {h}
          /\ reader' = [BitArchiveReader(archiveName) EXCEPT !.passwordCallback = TRUE]
          /\ m_PasswordCallback' = passwordCallback
          /\ m_Total' = IF fault.at = "size" THEN m_Total ELSE ArchiveSize(archiveName)
          /\ m_FileList' =
               CASE fault.at = "size" -> m_FileList
                 [] fault.at = "count" -> clearFileList
                 [] fault.at = "item" -> resetFileList(h, archiveName, fault.k - 1)
                 [] OTHER -> resetFileList(h, archiveName, Len(Items(archiveName)))
          /\ m_LastError' = IF fault = NoFault THEN "ERROR_NONE"
                            ELSE "ERROR_FAILED_TO_OPEN_ARCHIVE"
          /\ call' = IF fault = NoFault
                        THEN [c EXCEPT !.ret = "true", !.probed = TRUE,
                                       !.openTotal = ArchiveSize(archiveName)]
                        ELSE Log([c EXCEPT !.ret = "false", !.fault = fault.at,
                                           !.probed = TRUE])
          /\ opened' = (fault = NoFault)
          /\ asked' = <<>>
          /\ UNCHANGED <<m_Valid, m_shouldCancel, m_ProgressCallback,
                         m_FileChangeCallback, m_ErrorCallback>>
  /\ UNCHANGED <<m_Password, pc, indices, staged, fs,
                 m_LogCallback, otherVars>>

\* ------------------------------------------------------------------ close
close ==
  /\ pc = "idle"
  /\ heap' = Delete(heap, m_ArchivePtr)
  /\ m_ArchivePtr' = NULL
  /\ reader' = NoReader
  /\ m_FileList' = clearFileList
  /\ m_PasswordCallback' = FALSE
  /\ m_shouldCancel' = FALSE
  /\ opened' = FALSE
  /\ asked' = <<>>
  /\ call' = [NewCall("close") EXCEPT !.ret = "void"]
  /\ UNCHANGED <<m_Valid, m_LastError, m_Total, m_ProgressCallback,
                 m_FileChangeCallback, m_ErrorCallback, m_Password, pc, indices,
                 staged, fs,
                 m_LogCallback, otherVars>>

\* ------------------------------------------------- the Qt archive.cpp
\* m_FileMap[path] = index
FileMapInsert(map, path, index) ==
  [p \in DOMAIN map \cup {path} |-> IF p = path THEN index ELSE map[p]]

\* The loop of resetFileList of the Qt archive.cpp, as far as m_FileMap
\* goes: the first n items of the archive are entered under their paths
\* with their engine indices (counted from 0); nothing is removed first.
RECURSIVE resetFileMap(_, _, _)
resetFileMap(map, arc, n) ==
  IF n = 0 THEN map
  ELSE FileMapInsert(resetFileMap(map, arc, n - 1), Items(arc)[n].path, n - 1)

\* ArchiveImpl::open of the Qt archive.cpp: the open above, and
\* resetFileList fills m_FileMap as it fills the catalog.
open_003(archiveName, passwordCallback, fault) ==
  /\ pc = "idle"
  /\ LET c == [NewCall("open") EXCEPT !.archiveName = archiveName] IN
     IF LibraryMissing THEN
       /\ call' = Log([c EXCEPT !.ret = "false"])
       /\ opened' = FALSE
       /\ UNCHANGED <<m_Valid, m_LastError, m_shouldCancel, m_ArchivePtr,
                      m_Total, m_FileList, m_ProgressCallback,
                      m_FileChangeCallback, m_ErrorCallback,
                      m_PasswordCallback, heap, reader, asked, m_FileMap>>
     ELSE IF ~exists(archiveName) \/ is_directory(archiveName) THEN
       /\ m_LastError' = "ERROR_ARCHIVE_NOT_FOUND"
       /\ call' = Log([c EXCEPT !.ret = "false", !.probed = TRUE])
       /\ opened' = FALSE
       /\ UNCHANGED <<m_Valid, m_shouldCancel, m_ArchivePtr, m_Total, m_FileList,
                      m_ProgressCallback, m_FileChangeCallback, m_ErrorCallback,
                      m_PasswordCallback, heap, reader, asked, m_FileMap>>
     ELSE IF fault.at = "ctor" THEN
       /\ m_LastError' = "ERROR_FAILED_TO_OPEN_ARCHIVE"
       /\ call' = Log([c EXCEPT !.ret = "false", !.fault = fault.at,
                                  !.probed = TRUE])
       /\ opened' = FALSE
       /\ UNCHANGED <<m_Valid, m_shouldCancel, m_ArchivePtr, m_Total, m_FileList,
                      m_ProgressCallback, m_FileChangeCallback, m_ErrorCallback,
                      m_PasswordCallback, heap, reader, asked, m_FileMap>>
     ELSE
       /\ Cardinality(heap) < MaxHandles
       /\ LET h == NewHandle(heap) IN
          /\ m_ArchivePtr' = h
          /\ heap' = heap \cup {h}
          /\ reader' = [BitArchiveReader(archiveName) EXCEPT !.passwordCallback = TRUE]
          /\ m_PasswordCallback' = passwordCallback
          /\ m_Total' = IF fault.at = "size" THEN m_Total ELSE ArchiveSize(archiveName)
          /\ m_FileList' =
               CASE fault.at = "size" -> m_FileList
                 [] fault.at = "count" -> clearFileList
                 [] fault.at = "item" -> resetFileList(h, archiveName, fault.k - 1)
                 [] fault.at = "map" -> resetFileList(h, archiveName, fault.k)
                 [] OTHER -> resetFileList(h, archiveName, Len(Items(archiveName)))
          /\ m_FileMap' =
               CASE fault.at \in {"size", "count"} -> m_FileMap
                 [] fault.at \in {"item", "map"} ->
                      resetFileMap(m_FileMap, archiveName, fault.k - 1)
                 [] OTHER ->
                      resetFileMap(m_FileMap, archiveName, Len(Items(archiveName)))
          /\ m_LastError' = IF fault = NoFault THEN "ERROR_NONE"
                            ELSE "ERROR_FAILED_TO_OPEN_ARCHIVE"
          /\ call' = IF fault = NoFault
                        THEN [c EXCEPT !.ret = "true", !.probed = TRUE,
                                       !.openTotal = ArchiveSize(archiveName)]
                        ELSE Log([c EXCEPT !.ret = "false", !.fault = fault.at,
                                           !.probed = TRUE])
          /\ opened' = (fault = NoFault)
          /\ asked' = <<>>
          /\ UNCHANGED <<m_Valid, m_shouldCancel, m_ProgressCallback,
                         m_FileChangeCallback, m_ErrorCallback>>
  /\ UNCHANGED <<m_Password, pc, indices, staged, fs, m_LogCallback,
                 openCallback, request, m_fd, fds, io>>

\* ArchiveImpl::close of the Qt archive.cpp: the reader is deleted and the
\* pointer nulled; the cancellation flag and m_FileMap are left alone.
close_003 ==
  /\ pc = "idle"
  /\ heap' = Delete(heap, m_ArchivePtr)
  /\ m_ArchivePtr' = NULL
  /\ reader' = NoReader
  /\ m_FileList' = clearFileList
  /\ m_PasswordCallback' = FALSE
  /\ opened' = FALSE
  /\ asked' = <<>>
  /\ call' = [NewCall("close") EXCEPT !.ret = "void"]
  /\ UNCHANGED <<m_Valid, m_LastError, m_shouldCancel, m_Total,
                 m_ProgressCallback, m_FileChangeCallback, m_ErrorCallback,
                 m_Password, pc, indices, staged, fs, m_LogCallback, otherVars>>

\* What `delete p` can do: deleting an object that was already deleted is
\* undefined (the process dies, or the call has no effect).
DeleteOutcomes(hp, p) ==
  IF p # NULL /\ p \notin hp THEN {"crash", "continue"} ELSE {"defined"}

\* ArchiveImpl::close as the earlier archive.cpp has it: the reader is
\* deleted but m_ArchivePtr keeps its address, and the cancellation flag is
\* left alone. `op` is the caller (close, or the destructor, after which the
\* session is gone); `ub` is the outcome of the delete, `lib` the outcome of
\* the `delete m_Library` that follows in the destructor.
Close002(op, ub, lib) ==
  /\ pc = "idle"
  /\ ub \in DeleteOutcomes(heap, m_ArchivePtr)
  /\ heap' = Delete(heap, m_ArchivePtr)
  /\ reader' = NoReader
  /\ m_FileList' = clearFileList
  /\ m_PasswordCallback' = FALSE
  /\ opened' = FALSE
  /\ asked' = <<>>
  /\ call' = [NewCall(op) EXCEPT
                !.ret = IF "crash" \in {ub, lib} THEN "crash" ELSE "void",
                !.doubleDelete = (ub # "defined"),
                !.wildDelete = (ub # "crash" /\ lib # "defined")]
  /\ pc' = IF "crash" \in {ub, lib} THEN "crashed"
           ELSE IF op = "destructor" THEN "destroyed" ELSE "idle"
  /\ UNCHANGED <<m_Valid, m_LastError, m_shouldCancel, m_ArchivePtr, m_Total,
                 m_ProgressCallback, m_FileChangeCallback, m_ErrorCallback,
                 m_Password, indices, staged, fs,
                 m_LogCallback, otherVars>>

close_002(ub) == Close002("close", ub, "defined")

\* What `delete m_Library` can do in the destructor of the earlier
\* archive.cpp: its constructor assigns m_Library only when a library loads,
\* so on a session without library the pointer is indeterminate and the
\* delete is undefined (the process dies, or the call returns).
DeleteLibraryOutcomes ==
  IF m_Valid THEN {"defined"} ELSE {"crash", "continue"}

\* ArchiveImpl::~ArchiveImpl of the earlier archive.cpp: close(), then the
\* library is deleted.
destructor_002(ub, lib) ==
  /\ lib \in DeleteLibraryOutcomes
  /\ Close002("destructor", ub, lib)

\* ----------------------------------------------------------------- cancel
\* May run concurrently with an extract call in flight.
cancel ==
  /\ pc # "crashed"
  /\ m_shouldCancel' = TRUE
  /\ call' = IF pc = "idle" THEN [NewCall("cancel") EXCEPT !.ret = "void"]
             ELSE call
  /\ UNCHANGED <<m_Valid, m_LastError, m_ArchivePtr, m_Total, m_FileList,
                 m_ProgressCallback, m_FileChangeCallback, m_ErrorCallback,
                 m_PasswordCallback, heap, reader, pc, indices, staged, fs,
                 opened, m_Password,
                 asked,
                 m_LogCallback, otherVars>>

\* ------------------------------------------------------------ annotations
\* FileDataImpl::addOutputFilePath on entry i of getFileList()
addOutputFilePath(i, fileName) ==
  /\ pc = "idle"
  /\ i \in DOMAIN m_FileList
  /\ CountOut(m_FileList, Len(m_FileList)) < MaxOut
  /\ m_FileList' = [m_FileList EXCEPT ![i].out = Append(@, fileName)]
  /\ call' = [NewCall("addOutputFilePath") EXCEPT !.ret = "void"]
  /\ UNCHANGED <<m_Valid, m_LastError, m_shouldCancel, m_ArchivePtr, m_Total,
                 m_ProgressCallback, m_FileChangeCallback, m_ErrorCallback,
                 m_PasswordCallback, heap, reader, pc, indices, staged, fs,
                 opened, m_Password,
                 asked,
                 m_LogCallback, otherVars>>

clearOutputFilePaths(i) ==
  /\ pc = "idle"
  /\ i \in DOMAIN m_FileList
  /\ m_FileList' = [m_FileList EXCEPT ![i].out = <<>>]
  /\ call' = [NewCall("clearOutputFilePaths") EXCEPT !.ret = "void"]
  /\ UNCHANGED <<m_Valid, m_LastError, m_shouldCancel, m_ArchivePtr, m_Total,
                 m_ProgressCallback, m_FileChangeCallback, m_ErrorCallback,
                 m_PasswordCallback, heap, reader, pc, indices, staged, fs,
                 opened, m_Password,
                 asked,
                 m_LogCallback, otherVars>>

\* ------------------------------------------------------------- relocation
\* std::filesystem::create_directories(p, ec): every missing prefix of p
\* becomes a directory; an error if a prefix exists and is not a directory.
\* `fault` is a failure the platform reports for its own reasons: 0 for
\* none, 1 for one that strikes before anything is created, n > 1 for one
\* that strikes in the n-th mkdir(2) of the call, after the n - 1 shallowest
\* missing prefixes were created (a call that makes fewer than n mkdir(2)
\* calls is not struck). What the call created before it failed stays.
create_directories(f, p, fault) ==
  LET missing == {q \in Prefixes(p) : f[q].kind = "none"}
      made(k) == {q \in missing :
                    Cardinality({r \in missing : Len(r) < Len(q)}) < k}
  IN
  IF \E q \in Prefixes(p) : f[q].kind = "file"
    THEN [ok |-> FALSE, fs |-> f]
  ELSE IF fault = 0 \/ (fault > 1 /\ fault > Cardinality(missing))
    THEN [ok |-> TRUE,
          fs |-> [q \in DOMAIN f |-> IF q \in Prefixes(p) THEN Dir ELSE f[q]]]
  ELSE [ok |-> FALSE,
        fs |-> [q \in DOMAIN f |-> IF q \in made(fault - 1) THEN Dir ELSE f[q]]]

\* A variant of copy_file with copy_options::skip_existing: a destination
\* that exists is left as it is and no error is reported.
copy_file_SkipExisting(f, fromExists, data, to, fault) ==
  IF ~fromExists \/ f[parent_path(to)].kind # "dir" \/ fault = 1
    THEN [ok |-> FALSE, fs |-> f]
    ELSE IF f[to].kind # "none"
      THEN [ok |-> TRUE, fs |-> f]
      ELSE IF fault = 2
        THEN [ok |-> FALSE, fs |-> [f EXCEPT ![to] = File(0)]]
      ELSE IF fault = 3
        THEN [ok |-> FALSE, fs |-> [f EXCEPT ![to] = Truncated(data)]]
        ELSE [ok |-> fault = 0, fs |-> [f EXCEPT ![to] = File(data)]]

\* std::filesystem::copy_file(from, to, ec) with copy_options::none: an
\* error if `from` is not a regular file or if `to` already exists.
\* `fault` is a failure the platform reports for its own reasons: 0 for
\* none, 1 for one that strikes before the destination is opened, 2 for
\* one that strikes when the transfer begins, before a byte is written,
\* which leaves the destination behind as an empty file, 3 for one that
\* strikes after part of the data was written (a write that fails once
\* some bytes went through), which leaves the destination behind with the
\* first bytes of the source, more for one that strikes after the whole
\* transfer (the close of the destination fails), which leaves the
\* complete file behind and still reports an error.
copy_file(f, fromExists, data, to, fault) ==
  IF ~fromExists \/ f[to].kind # "none" \/ f[parent_path(to)].kind # "dir"
       \/ fault = 1
    THEN [ok |-> FALSE, fs |-> f]
  ELSE IF fault = 2
    THEN [ok |-> FALSE, fs |-> [f EXCEPT ![to] = File(0)]]
  ELSE IF fault = 3
    THEN [ok |-> FALSE, fs |-> [f EXCEPT ![to] = Truncated(data)]]
  ELSE IF fault > 3
    THEN [ok |-> FALSE, fs |-> [f EXCEPT ![to] = File(data)]]
  ELSE [ok |-> TRUE, fs |-> [f EXCEPT ![to] = File(data)]]

\* The directory extract creates before it copies a file to outputFilePath.
targetDirectory(outputFilePath) ==
  IF has_parent_path(outputFilePath) THEN parent_path(outputFilePath) ELSE <<>>

\* A variant of the loop body that handles a directory entry like a file:
\* it creates the parent and copies the entry from tmpDir.
PathOps_CopyAll(list, i, j) ==
  LET p == list[i].out[j] IN
  << [op |-> "mkdir", path |-> targetDirectory(p), entry |-> i],
     [op |-> "copy", path |-> p, entry |-> i] >>

\* The file-system calls of the relocation loop for output path j of entry i.
PathOps(list, i, j) ==
  LET p == list[i].out[j] IN
  IF list[i].dir
    THEN << [op |-> "mkdir", path |-> p, entry |-> i] >>
    ELSE << [op |-> "mkdir", path |-> targetDirectory(p), entry |-> i],
            [op |-> "copy", path |-> p, entry |-> i] >>

RECURSIVE EntryOps(_, _, _)
EntryOps(list, i, j) ==
  IF j > Len(list[i].out) THEN <<>>
  ELSE PathOps(list, i, j) \o EntryOps(list, i, j + 1)

\* The calls of the whole loop, entries in catalog order.
RECURSIVE RelocationOps(_, _)
RelocationOps(list, i) ==
  IF i > Len(list) THEN <<>>
  ELSE EntryOps(list, i, 1) \o RelocationOps(list, i + 1)

\* One call of the loop on file system f; `inTmp` are the items the engine
\* wrote to tmpDir. The source of a copy is tmpDir / the archive path of
\* the catalog entry: it is there when the engine wrote a file under that
\* path, and holds what the engine wrote.
RunOp(f, o, list, inTmp, fault) ==
  LET from == {s \in inTmp : s.path = list[o.entry].path /\ ~s.dir} IN
  IF o.op = "mkdir"
    THEN create_directories(f, o.path, fault)
    ELSE copy_file(f, from # {},
                   IF from = {} THEN 0 ELSE (CHOOSE s \in from : TRUE).crc,
                   o.path, fault)

\* The steps at which the platform can fail call `failAt` of the loop:
\* before it has changed anything, or, for a copy, at the start of the
\* data transfer, in the middle of it or after it and, for a
\* create_directories, in one of the mkdir(2) calls after the first (a path
\* of n components takes n + 1 at most: the output directory itself is
\* created when it is missing).
FailSteps(failAt) ==
  IF failAt = 0 THEN {0}
  ELSE LET o == RelocationOps(m_FileList, 1)[failAt] IN
       IF o.op = "copy" THEN 1..4
       ELSE 1..(Len(o.path) + 1)

\* A fault of the platform: the call of the loop it strikes (0: none) and
\* the step of that call.
NoFsFault == [at |-> 0, step |-> 0]

FaultOf(fail, n) == IF fail.at = n THEN fail.step ELSE 0

\* A variant of the loop that goes on with the next call after one failed.
RECURSIVE Relocate_Continue(_, _, _, _, _, _, _)
Relocate_Continue(ops, n, f, log, list, inTmp, fail) ==
  IF n > Len(ops) THEN [ok |-> (fail.step # -1), fs |-> f, log |-> log]
  ELSE LET r == RunOp(f, ops[n], list, inTmp, FaultOf(fail, n)) IN
       IF r.ok
         THEN Relocate_Continue(ops, n + 1, r.fs, Append(log, ops[n]), list,
                                inTmp, fail)
         ELSE Relocate_Continue(ops, n + 1, r.fs, log, list, inTmp,
                                [at |-> 0, step |-> -1])

\* The loop from call n on: it stops at the first call that fails. `fail`
\* is the fault of the platform.
RECURSIVE Relocate(_, _, _, _, _, _, _)
Relocate(ops, n, f, log, list, inTmp, fail) ==
  IF n > Len(ops) THEN [ok |-> TRUE, fs |-> f, log |-> log]
  ELSE LET r == RunOp(f, ops[n], list, inTmp, FaultOf(fail, n)) IN
       IF r.ok
         THEN Relocate(ops, n + 1, r.fs, Append(log, ops[n]), list, inTmp, fail)
         ELSE [ok |-> FALSE, fs |-> r.fs, log |-> log]

\* ---------------------------------------------------------------- extract
\* The positions of the entries that have an output path, ascending.
RECURSIVE SelectIndices(_, _)
SelectIndices(list, n) ==
  IF n = 0 THEN <<>>
  ELSE IF ~isEmpty(list[n])
         THEN Append(SelectIndices(list, n - 1), n)
         ELSE SelectIndices(list, n - 1)

\* std::format(fmt, args...): each replacement field {} of the format
\* string takes the next argument; arguments beyond the last field are
\* ignored. A format string is its text and the number of its fields; the
\* result is the text with the arguments that went into it.
format(fmt, args) ==
  [text |-> fmt.text,
   args |-> SubSeq(args, 1, IF fmt.fields < Len(args) THEN fmt.fields
                            ELSE Len(args))]

\* ec.message() and ex.what()
ec_message == <<"ec.message">>
ex_what == [text |-> "ex.what", args |-> <<>>]

TmpDirFormat ==
  [text |-> "Error creating a temporary directory for extraction, {}",
   fields |-> 1]
DirectoryFormat ==
  [text |-> "Error creating output directory %1: %2", fields |-> 0]
ParentFormat ==
  [text |-> "Error creating output directory {}: {}", fields |-> 2]
CopyFormat ==
  [text |-> "Error writing to output file {}: {}", fields |-> 2]

\* The message extract builds for the file-system call `o` that failed.
RelocationMessage(o, list) ==
  IF list[o.entry].dir THEN format(DirectoryFormat, <<o.path, ec_message>>)
  ELSE IF o.op = "mkdir" THEN format(ParentFormat, <<o.path, ec_message>>)
  ELSE format(CopyFormat, <<o.path, ec_message>>)

\* A variant of reportError that never reaches the error callback.
reportError_Silent(c, errorCallback, message) == c

\* A variant of reportError that invokes the error callback twice.
reportError_Twice(c, errorCallback, message) ==
  [c EXCEPT !.nError = IF errorCallback THEN @ + 2 ELSE @,
            !.message = IF errorCallback THEN message ELSE @]

\* reportError: the error callback is invoked only if one was supplied
reportError(c, errorCallback, message) ==
  [c EXCEPT !.nError = IF errorCallback THEN @ + 1 ELSE @,
            !.message = IF errorCallback THEN message ELSE @]

\* The relocation loop and the return that follows it.
RelocateAndReturn(c, errorCallback, inTmp, fail) ==
  LET ops == RelocationOps(m_FileList, 1)
      r == Relocate(ops, 1, fs, <<>>, m_FileList, inTmp, fail)
  IN
  /\ fs' = r.fs
  /\ m_LastError' = IF r.ok THEN m_LastError ELSE "ERROR_LIBRARY_ERROR"
  /\ call' = IF r.ok
               THEN [c EXCEPT !.ret = "true", !.log = r.log,
                              !.fsFault = (fail.at # 0)]
               ELSE [reportError(c, errorCallback,
                                 RelocationMessage(ops[Len(r.log) + 1],
                                                   m_FileList))
                       EXCEPT
                       !.ret = "false", !.log = r.log, !.fsFault = (fail.at # 0)]
  /\ pc' = "idle"
  /\ indices' = <<>>
  /\ staged' = 0

\* What a member call through m_ArchivePtr can do: it is undefined when
\* the pointer is null (the process dies, or the call has no effect).
Deref(p) == IF p = NULL THEN {"crash", "continue"} ELSE {"defined"}

\* ArchiveImpl::extract up to the call of extractTo. tmpOk: the staging
\* directory could be created. ub: the outcome of the calls through
\* m_ArchivePtr.
extract(progressCallback, fileChangeCallback, errorCallback, tmpOk, ub) ==
  /\ pc = "idle"
  /\ LET c == NewCall("extract")
         sel == SelectIndices(m_FileList, Len(m_FileList))
         deref == fileChangeCallback \/ progressCallback \/ tmpOk
     IN
     IF LibraryMissing THEN
       /\ call' = [c EXCEPT !.ret = "false"]
       /\ UNCHANGED <<m_LastError, m_ProgressCallback, m_FileChangeCallback,
                      m_ErrorCallback, reader, pc, indices, staged, fs>>
     ELSE
       /\ m_ProgressCallback' = progressCallback
       /\ m_FileChangeCallback' = fileChangeCallback
       /\ m_ErrorCallback' = errorCallback
       /\ IF m_ArchivePtr = NULL /\ deref /\ ub = "crash" THEN
            \* the first call through the pointer: setFileCallback or
            \* setProgressCallback when a callback was given, else
            \* extractTo, entered once the staging directory was created
            /\ pc' = "crashed"
            /\ call' = IF fileChangeCallback \/ progressCallback
                         THEN [c EXCEPT !.ret = "crash", !.engineCall = TRUE]
                         ELSE [c EXCEPT !.ret = "crash", !.engineCall = TRUE,
                                        !.extractTo = TRUE, !.nExtractTo = 1,
                                        !.tmpDir = "exists"]
            /\ UNCHANGED <<m_LastError, reader, indices, staged, fs>>
          ELSE
            /\ reader' = IF m_ArchivePtr = NULL THEN reader
                         ELSE [reader EXCEPT
                                 !.fileCallback = @ \/ fileChangeCallback,
                                 !.progressCallback = @ \/ progressCallback]
            /\ IF ~tmpOk THEN
                 /\ m_LastError' = "ERROR_OUT_OF_MEMORY"
                 /\ call' = [reportError(c, errorCallback,
                                         format(TmpDirFormat, <<ec_message>>))
                               EXCEPT
                               !.ret = "false", !.tmpFail = TRUE,
                               !.engineCall = fileChangeCallback \/ progressCallback]
                 /\ UNCHANGED <<pc, indices, staged, fs>>
               ELSE IF m_ArchivePtr = NULL THEN
                 \* extractTo on no object did nothing; the loop follows
                 RelocateAndReturn([c EXCEPT !.engineCall = TRUE,
                                             !.extractTo = TRUE,
                                             !.nExtractTo = 1,
                                             !.tmpDir = "exists"],
                                   errorCallback, {}, NoFsFault)
               ELSE
                 /\ pc' = "engine"
                 /\ indices' = sel
                 /\ staged' = 0
                 /\ call' = [c EXCEPT !.engineCall = TRUE, !.extractTo = TRUE,
                                      !.nExtractTo = 1, !.tmpDir = "exists"]
                 /\ UNCHANGED <<m_LastError, fs>>
  /\ UNCHANGED <<m_Valid, m_shouldCancel, m_ArchivePtr, m_Total, m_FileList,
                 m_PasswordCallback, heap, opened, m_Password,
                 asked,
                 m_LogCallback, otherVars>>

\* m_ProgressType and m_FileChangeType: set by the constructor, and by
\* extract before it installs the file relay
m_ProgressType == "EXTRACTION"
m_FileChangeType == "EXTRACTION_START"

\* The engine is handed tmpDir and the index list and works on the archive
\* the reader at m_ArchivePtr was constructed on, which is not the archive
\* of the catalog after an open that failed past the construction of the
\* reader.
ReaderItems == Items(reader.arc)

\* extractTo raises a BitException before it extracts anything when an
\* index of the list is not one of an item of the reader's archive.
IndicesValid == \A k \in DOMAIN indices : indices[k] \in DOMAIN ReaderItems

\* What the engine has written to tmpDir once it is through the first n
\* indices of the list.
Staged(n) == {ReaderItems[indices[k]] : k \in 1..n}

\* The byte count of a progress tick: the sizes of the items the engine
\* has written so far.
RECURSIVE EngineCurrent(_)
EngineCurrent(n) ==
  IF n = 0 THEN 0 ELSE ReaderItems[indices[n]].size + EngineCurrent(n - 1)

\* m_ProgressCallback(m_ProgressType, current, m_Total)
ProgressArguments(current) == <<m_ProgressType, current, m_Total>>

\* m_FileChangeCallback(m_FileChangeType, path)
FileChangeArguments(path) == <<m_FileChangeType, path>>

\* Calling an empty std::function throws std::bad_function_call from
\* inside the engine. Either it unwinds through extractTo and out of extract,
\* whose handler catches BitException only, or the engine turns it into a
\* failure of its own and extractTo raises a BitException.
Thrown == {"escapes", "fails"}

BadFunctionCall(thrown) ==
  IF thrown = "escapes" THEN
    /\ pc' = "idle"
    /\ call' = [call EXCEPT !.ret = "exception",
                            !.emptyCallback = "fileChange"]
    /\ indices' = <<>>
    /\ staged' = 0
  ELSE
    /\ pc' = "catch"
    /\ call' = [call EXCEPT !.threw = TRUE, !.emptyCallback = "fileChange"]
    /\ UNCHANGED <<indices, staged>>

\* The engine begins the next item of the index list: it calls the file
\* callback installed on the reader with the path of the item in its own
\* archive, then writes the item to tmpDir.
EngineFile(thrown) ==
  /\ pc = "engine"
  /\ IndicesValid
  /\ staged < Len(indices)
  /\ IF reader.fileCallback /\ ~m_FileChangeCallback THEN
       BadFunctionCall(thrown)
     ELSE
       /\ call' = [call EXCEPT
                     !.nFileChange = IF reader.fileCallback THEN @ + 1 ELSE @,
                     !.path = IF reader.fileCallback
                                THEN ReaderItems[indices[staged + 1]].path
                                ELSE @,
                     !.fileChange =
                        IF reader.fileCallback
                          THEN FileChangeArguments(
                                 ReaderItems[indices[staged + 1]].path)
                          ELSE @]
       /\ staged' = staged + 1
       /\ UNCHANGED <<pc, indices>>
  /\ UNCHANGED <<m_Valid, m_LastError, m_shouldCancel, m_ArchivePtr, m_Total,
                 m_FileList, m_ProgressCallback, m_FileChangeCallback,
                 m_ErrorCallback, m_PasswordCallback, heap, reader, fs, opened, m_Password,
                 asked,
                 m_LogCallback, otherVars>>

\* A variant of the relay that never asks the engine to stop.
progressCallbackWrapper_AlwaysContinue == TRUE

\* progressCallbackWrapper: relays to the caller's callback, then answers
\* whether to continue.
progressCallbackWrapper == ~m_shouldCancel

\* A progress tick: the engine calls the progress callback installed on the
\* reader; when the answer is stop it aborts with a BitException.
EngineTick(thrown) ==
  /\ pc = "engine"
  /\ IndicesValid
  /\ reader.progressCallback
  /\ call.nProgress < MaxTicks
  /\ IF ~m_ProgressCallback THEN
       /\ pc' = IF thrown = "escapes" THEN "idle" ELSE "catch"
       /\ call' = [call EXCEPT
                     !.ret = IF thrown = "escapes" THEN "exception" ELSE @,
                     !.threw = (thrown # "escapes"),
                     !.cancelledTick = m_shouldCancel,
                     !.tick = EngineCurrent(staged),
                     !.emptyCallback = "progress"]
       /\ indices' = IF thrown = "escapes" THEN <<>> ELSE indices
       /\ staged' = IF thrown = "escapes" THEN 0 ELSE staged
     ELSE IF progressCallbackWrapper THEN
       /\ call' = [call EXCEPT !.nProgress = @ + 1,
                               !.tick = EngineCurrent(staged),
                               !.progress = ProgressArguments(EngineCurrent(staged))]
       /\ UNCHANGED <<pc, indices, staged>>
     ELSE
       /\ call' = [call EXCEPT !.nProgress = @ + 1, !.stop = TRUE,
                               !.threw = TRUE, !.cancelledTick = TRUE,
                               !.tick = EngineCurrent(staged),
                               !.progress = ProgressArguments(EngineCurrent(staged))]
       /\ pc' = "catch"
       /\ UNCHANGED <<indices, staged>>
  /\ UNCHANGED <<m_Valid, m_LastError, m_shouldCancel, m_ArchivePtr, m_Total,
                 m_FileList, m_ProgressCallback, m_FileChangeCallback,
                 m_ErrorCallback, m_PasswordCallback, heap, reader, fs, opened, m_Password,
                 asked,
                 m_LogCallback, otherVars>>

\* What the caller's password provider can return.
Passwords == {"", "p"}

\* passwordCallbackWrapper: the provider is asked only while the cached
\* password is empty; `provided` is what it returns if it is asked.
passwordCallbackWrapper(provided) ==
  IF m_Password = "" /\ m_PasswordCallback
    THEN [invoked |-> TRUE, password |-> provided]
    ELSE [invoked |-> FALSE, password |-> m_Password]

\* The engine asks for the password through the callback open installed on
\* the reader.
EnginePassword(provided) ==
  /\ pc = "engine"
  /\ IndicesValid
  /\ reader.passwordCallback
  /\ Len(asked) < MaxAsks
  /\ LET r == passwordCallbackWrapper(provided) IN
       /\ m_Password' = r.password
       /\ asked' = Append(asked, r)
  /\ UNCHANGED <<m_Valid, m_LastError, m_shouldCancel, m_ArchivePtr, m_Total,
                 m_FileList, m_ProgressCallback, m_FileChangeCallback,
                 m_ErrorCallback, m_PasswordCallback, heap, reader, pc,
                 indices, staged, fs, opened, call,
                 m_LogCallback, otherVars>>

\* The engine fails for a reason of its own (an index that is none of its
\* archive, corrupt data, an I/O fault): extractTo raises a BitException.
EngineFault ==
  /\ pc = "engine"
  /\ pc' = "catch"
  /\ call' = [call EXCEPT !.threw = TRUE, !.fault = "extractTo"]
  /\ UNCHANGED <<m_Valid, m_LastError, m_shouldCancel, m_ArchivePtr, m_Total,
                 m_FileList, m_ProgressCallback, m_FileChangeCallback,
                 m_ErrorCallback, m_PasswordCallback, heap, reader, indices,
                 staged, fs, opened, m_Password,
                 asked,
                 m_LogCallback, otherVars>>

\* A variant of the handler that tests the cancellation flag the wrong way
\* round.
CatchError_Inverted(shouldCancel) ==
  IF shouldCancel THEN "ERROR_LIBRARY_ERROR" ELSE "ERROR_EXTRACT_CANCELLED"

\* The error the handler of BitException records.
\* A variant of the handler that records an error only for a cancellation.
CatchError_None(shouldCancel) ==
  IF shouldCancel THEN "ERROR_EXTRACT_CANCELLED" ELSE "ERROR_NONE"

CatchError(shouldCancel) ==
  IF shouldCancel THEN "ERROR_EXTRACT_CANCELLED" ELSE "ERROR_LIBRARY_ERROR"

\* A variant of the handler that calls extractTo again.
Catch_Retry ==
  /\ pc = "catch"
  /\ call' = [call EXCEPT !.nExtractTo = @ + 1, !.threw = FALSE]
  /\ pc' = "engine"
  /\ staged' = 0
  /\ UNCHANGED <<m_Valid, m_LastError, m_shouldCancel, m_ArchivePtr, m_Total,
                 m_FileList, m_ProgressCallback, m_FileChangeCallback,
                 m_ErrorCallback, m_PasswordCallback, heap, reader, indices, fs,
                 opened, m_Password, asked, m_LogCallback, otherVars>>

\* A variant of the handler that lets the exception go on to the caller.
Catch_Rethrow ==
  /\ pc = "catch"
  /\ call' = [call EXCEPT !.ret = "exception"]
  /\ pc' = "idle"
  /\ indices' = <<>>
  /\ staged' = 0
  /\ UNCHANGED <<m_Valid, m_LastError, m_shouldCancel, m_ArchivePtr, m_Total,
                 m_FileList, m_ProgressCallback, m_FileChangeCallback,
                 m_ErrorCallback, m_PasswordCallback, heap, reader, fs, opened,
                 m_Password, asked,
                 m_LogCallback, otherVars>>

\* catch (const BitException&) of extract
Catch ==
  /\ pc = "catch"
  /\ m_LastError' = CatchError(m_shouldCancel)
  /\ call' = [reportError(call, m_ErrorCallback, ex_what) EXCEPT !.ret = "false",
                                       !.flagAtCatch = m_shouldCancel]
  /\ pc' = "idle"
  /\ indices' = <<>>
  /\ staged' = 0
  /\ UNCHANGED <<m_Valid, m_shouldCancel, m_ArchivePtr, m_Total, m_FileList,
                 m_ProgressCallback, m_FileChangeCallback, m_ErrorCallback,
                 m_PasswordCallback, heap, reader, fs, opened, m_Password,
                 asked,
                 m_LogCallback, otherVars>>

\* extractTo returns: every item of the reader's archive that the index
\* list names is in tmpDir; the relocation loop runs and extract returns.
\* A variant of the relocation that forgets the output paths of the entries
\* once the call is over.
EngineFinish_ClearPaths(failAt, failStep) ==
  /\ pc = "engine"
  /\ IndicesValid
  /\ staged = Len(indices)
  /\ RelocateAndReturn(call, m_ErrorCallback, Staged(Len(indices)),
                       [at |-> failAt, step |-> failStep])
  /\ m_FileList' = [i \in DOMAIN m_FileList |->
                       [m_FileList[i] EXCEPT !.out = <<>>]]
  /\ UNCHANGED <<m_Valid, m_shouldCancel, m_ArchivePtr, m_Total,
                 m_ProgressCallback, m_FileChangeCallback, m_ErrorCallback,
                 m_PasswordCallback, heap, reader, opened, m_Password,
                 asked,
                 m_LogCallback, otherVars>>

EngineFinish(failAt, failStep) ==
  /\ pc = "engine"
  /\ IndicesValid
  /\ staged = Len(indices)
  /\ RelocateAndReturn(call, m_ErrorCallback, Staged(Len(indices)),
                       [at |-> failAt, step |-> failStep])
  /\ UNCHANGED <<m_Valid, m_shouldCancel, m_ArchivePtr, m_Total, m_FileList,
                 m_ProgressCallback, m_FileChangeCallback, m_ErrorCallback,
                 m_PasswordCallback, heap, reader, opened, m_Password,
                 asked,
                 m_LogCallback, otherVars>>

\* ------------------------------------------------- open-callback adapter
\* The paths an adapter is constructed on, the size of what is there, and
\* what can be there when the adapter looks: a file, a directory, nothing.
AdapterPaths == { <<"mods", "A.7z">>, <<"B.7z">> }
FileSize(p) == IF p = <<"B.7z">> THEN 20 ELSE 10
Kinds == {"file", "dir", "missing"}
SubArchiveNames == {"inner.tar", "other.tar"}

\* std::filesystem::path::filename(): the last component
filename(p) == p[Len(p)]

\* FileInfo(path, finfo): what GetFileInformation found at `path`
FileInfo(p, kind) == [path |-> p, isDir |-> (kind = "dir"), fileSize |-> FileSize(p)]

\* A request to the adapter, with the provider invocations and the last
\* sub-archive name pushed since the adapter was constructed.
NewRequest(op, arg) ==
  [NoRequest EXCEPT !.op = op, !.arg = arg, !.invoked = request.invoked,
                    !.pushed = request.pushed]

\* CArchiveOpenCallback::CArchiveOpenCallback(passwordCallback, filepath):
\* throws when nothing is at filepath (kind) or its information cannot be
\* read (info), and then there is no adapter.
CArchiveOpenCallback(passwordCallback, filepath, kind, info) ==
  /\ IF kind = "missing" \/ ~info THEN
       /\ openCallback' = NoOpenCallback
       /\ request' = [NoRequest EXCEPT !.op = "CArchiveOpenCallback",
                                       !.hr = "runtime_error", !.now = kind]
     ELSE
       /\ openCallback' =
            [NoOpenCallback EXCEPT
               !.constructed = TRUE, !.m_PasswordCallback = passwordCallback,
               !.m_Path = filepath, !.m_FileInfo = FileInfo(filepath, kind)]
       /\ request' = [NoRequest EXCEPT !.op = "CArchiveOpenCallback",
                                       !.now = kind]
  /\ UNCHANGED sessionVars

\* CArchiveOpenCallback::CryptoGetTextPassword: `provided` is what the
\* password provider returns, `alloc` whether SysAllocString succeeds.
CryptoGetTextPassword(provided, alloc) ==
  /\ openCallback.constructed
  /\ request.invoked < MaxAsks
  /\ IF ~openCallback.m_PasswordCallback THEN
       /\ request' = [NewRequest("CryptoGetTextPassword", "") EXCEPT
                        !.hr = "E_ABORT"]
       /\ UNCHANGED openCallback
     ELSE
       /\ openCallback' = [openCallback EXCEPT !.m_Password = provided]
       /\ request' = [NewRequest("CryptoGetTextPassword", "") EXCEPT
                        !.invoked = @ + 1,
                        !.value = IF alloc THEN provided ELSE "null",
                        !.hr = IF alloc THEN "S_OK" ELSE "E_OUTOFMEMORY"]
  /\ UNCHANGED sessionVars

\* A variant of SetSubArchiveName that stores the name but does not switch
\* the adapter to sub-archive mode.
SetSubArchiveName_NoMode(name) ==
  /\ openCallback.constructed
  /\ openCallback' = [openCallback EXCEPT !.m_SubArchiveName = name]
  /\ request' = [NewRequest("SetSubArchiveName", name) EXCEPT
                   !.hr = "S_OK", !.pushed = name]
  /\ UNCHANGED sessionVars

\* CArchiveOpenCallback::SetSubArchiveName
SetSubArchiveName(name) ==
  /\ openCallback.constructed
  /\ openCallback' = [openCallback EXCEPT !.m_SubArchiveMode = TRUE,
                                          !.m_SubArchiveName = name]
  /\ request' = [NewRequest("SetSubArchiveName", name) EXCEPT
                   !.hr = "S_OK", !.pushed = name]
  /\ UNCHANGED sessionVars

\* The property identifiers the engine asks for, and one it does not.
PropIDs == {"kpidName", "kpidSize", "kpidIsDir"}

\* CArchiveOpenCallback::GetProperty: the variant is left alone for a
\* property other than the name and the size.
GetProperty(propID) ==
  /\ openCallback.constructed
  /\ request' = [NewRequest("GetProperty", propID) EXCEPT
                   !.hr = "S_OK",
                   !.value =
                      CASE propID = "kpidName" ->
                             IF openCallback.m_SubArchiveMode
                               THEN openCallback.m_SubArchiveName
                               ELSE filename(openCallback.m_Path)
                        [] propID = "kpidSize" -> openCallback.m_FileInfo.fileSize
                        [] OTHER -> "empty"]
  /\ UNCHANGED <<openCallback, sessionVars>>

\* What CreateFileW leaves in the thread's last error when it fails.
LastErrors == {"ERROR_ACCESS_DENIED", "ERROR_SHARING_VIOLATION"}

\* InputStream::Open(path): opens the file for reading; it succeeds when a
\* regular file is there and the platform grants the open.
InputStream_Open(now, granted) == now = "file" /\ granted

\* A stream that was opened on `p`.
InputStream(p) == [path |-> p, access |-> "GENERIC_READ"]

\* A variant of GetStream without the first assignment to *inStream: when
\* no stream is opened the caller's pointer keeps what it held.
GetStream_KeepStream(now, granted, lastError) ==
  /\ openCallback.constructed
  /\ request' =
       IF now = "missing" \/ openCallback.m_FileInfo.isDir THEN
         [NewRequest("GetStream", "") EXCEPT !.now = now, !.hr = "S_FALSE",
                                            !.stream = request.stream]
       ELSE IF ~InputStream_Open(now, granted) THEN
         [NewRequest("GetStream", "") EXCEPT !.now = now, !.hr = lastError,
                                            !.stream = request.stream]
       ELSE
         [NewRequest("GetStream", "") EXCEPT
            !.now = now, !.hr = "S_OK",
            !.stream = InputStream(openCallback.m_FileInfo.path)]
  /\ UNCHANGED <<openCallback, sessionVars>>

\* CArchiveOpenCallback::GetStream: `now` is what is at m_FileInfo.path()
\* when the engine asks, `granted` whether the platform lets it be opened,
\* lastError what ::GetLastError() returns after a failed open.
GetStream(now, granted, lastError) ==
  /\ openCallback.constructed
  /\ request' =
       IF now = "missing" \/ openCallback.m_FileInfo.isDir THEN
         [NewRequest("GetStream", "") EXCEPT !.now = now, !.hr = "S_FALSE",
                                            !.stream = "nullptr"]
       ELSE IF ~InputStream_Open(now, granted) THEN
         [NewRequest("GetStream", "") EXCEPT !.now = now, !.hr = lastError,
                                            !.stream = "nullptr"]
       ELSE
         [NewRequest("GetStream", "") EXCEPT
            !.now = now, !.hr = "S_OK",
            !.stream = InputStream(openCallback.m_FileInfo.path)]
  /\ UNCHANGED <<openCallback, sessionVars>>

\* ---------------------------------------------------------- specifications
\* The session: every way an open can end, every combination of progress and
\* file-change callbacks, cancel at any moment. The caller supplies a
\* password provider and an error callback and asks for one output path.
SessionPaths == { <<"x">> }

Next ==
  \/ \E a \in OpenPaths : \E f \in OpenFaults(a) : open(a, TRUE, f)
  \/ close
  \/ cancel
  \/ \E i \in DOMAIN m_FileList, p \in SessionPaths : addOutputFilePath(i, p)
  \/ \E i \in DOMAIN m_FileList : clearOutputFilePaths(i)
  \/ \E pcb \in BOOLEAN, fcb \in BOOLEAN, tmpOk \in BOOLEAN,
        ub \in Deref(m_ArchivePtr) : extract(pcb, fcb, TRUE, tmpOk, ub)
  \/ \E thrown \in Thrown : EngineFile(thrown)
  \/ \E thrown \in Thrown : EngineTick(thrown)
  \/ EngineFault
  \/ Catch
  \/ EngineFinish(0, 0)

Spec == Init /\ [][Next]_vars

\* The relocation: the archive that holds a file and a directory, opened
\* without a failure, every output path, the file-change and error
\* callbacks supplied and no progress callback (the reader gets no progress
\* relay, so the engine has none to call), no cancel; the output directory
\* is missing at first; the platform may fail any one file-system call, at
\* any step of it. The archive is opened only on a session that holds no
\* reader.
NextRelocation ==
  \/ m_ArchivePtr = NULL /\ open("A", TRUE, NoFault)
  \/ close
  \/ \E i \in DOMAIN m_FileList, p \in OutPaths : addOutputFilePath(i, p)
  \/ \E i \in DOMAIN m_FileList : clearOutputFilePaths(i)
  \/ \E tmpOk \in BOOLEAN, ub \in Deref(m_ArchivePtr) :
       extract(FALSE, TRUE, TRUE, tmpOk, ub)
  \/ \E thrown \in Thrown : EngineFile(thrown)
  \/ EngineFault
  \/ Catch
  \/ \E failAt \in 0..Len(RelocationOps(m_FileList, 1)) :
       \E failStep \in FailSteps(failAt) : EngineFinish(failAt, failStep)

SpecRelocation == Init /\ [][NextRelocation]_vars

\* The password: opens the engine does not fail, with or without a password provider,
\* one output path, no progress or file-change callback; during extractTo
\* the engine asks for the password and the provider answers anything.
NextPassword ==
  \/ \E a \in OpenPaths, pw \in BOOLEAN : open(a, pw, NoFault)
  \/ close
  \/ \E i \in DOMAIN m_FileList, p \in SessionPaths : addOutputFilePath(i, p)
  \/ \E ub \in Deref(m_ArchivePtr) : extract(FALSE, FALSE, TRUE, TRUE, ub)
  \/ \E provided \in Passwords : EnginePassword(provided)
  \/ \E thrown \in Thrown : EngineFile(thrown)
  \/ EngineFault
  \/ Catch
  \/ EngineFinish(0, 0)

SpecPassword == Init /\ [][NextPassword]_vars

\* Opening and closing with the close of the earlier archive.cpp: every way
\* an open can end, annotations, close and the destructor.
NextClose002 ==
  \/ \E a \in OpenPaths : \E f \in OpenFaults(a) : open(a, TRUE, f)
  \/ \E ub \in DeleteOutcomes(heap, m_ArchivePtr) : close_002(ub)
  \/ \E ub \in DeleteOutcomes(heap, m_ArchivePtr),
          lib \in DeleteLibraryOutcomes : destructor_002(ub, lib)
  \/ \E i \in DOMAIN m_FileList, p \in SessionPaths : addOutputFilePath(i, p)
  \/ \E i \in DOMAIN m_FileList : clearOutputFilePaths(i)

SpecClose002 == Init /\ [][NextClose002]_vars

\* Cancelling: archives that open, one output path, an extraction with or
\* without a progress callback, progress ticks, an engine that may fail,
\* and cancel() at any moment.
NextCancel ==
  \/ \E a \in ArchiveNames : open(a, TRUE, NoFault)
  \/ close
  \/ cancel
  \/ \E i \in DOMAIN m_FileList, p \in SessionPaths : addOutputFilePath(i, p)
  \/ \E pcb \in BOOLEAN, ub \in Deref(m_ArchivePtr) :
       extract(pcb, FALSE, TRUE, TRUE, ub)
  \/ \E thrown \in Thrown : EngineFile(thrown)
  \/ \E thrown \in Thrown : EngineTick(thrown)
  \/ EngineFault
  \/ Catch
  \/ EngineFinish(0, 0)

SpecCancel == Init /\ [][NextCancel]_vars

\* Cancelling between calls only: archives that open, one output path, an
\* extraction with or without a progress callback, and cancel() issued only
\* while no extract is running.
NextIdleCancel ==
  \/ \E a \in ArchiveNames : open(a, TRUE, NoFault)
  \/ close
  \/ pc = "idle" /\ cancel
  \/ \E i \in DOMAIN m_FileList, p \in SessionPaths : addOutputFilePath(i, p)
  \/ \E pcb \in BOOLEAN, ub \in Deref(m_ArchivePtr) :
       extract(pcb, FALSE, TRUE, TRUE, ub)
  \/ \E thrown \in Thrown : EngineFile(thrown)
  \/ \E thrown \in Thrown : EngineTick(thrown)
  \/ EngineFault
  \/ Catch
  \/ EngineFinish(0, 0)

SpecIdleCancel == Init /\ [][NextIdleCancel]_vars

\* Logging: every way an open can end, close, annotations, and a caller
\* that installs a log sink or an empty one at any time between calls.
NextLog ==
  \/ \E logCallback \in LogCallbacks : setLogCallback(logCallback)
  \/ \E a \in OpenPaths : \E f \in OpenFaults(a) : open(a, TRUE, f)
  \/ close
  \/ \E i \in DOMAIN m_FileList, p \in SessionPaths : addOutputFilePath(i, p)
  \/ \E i \in DOMAIN m_FileList : clearOutputFilePaths(i)

SpecLog == Init /\ [][NextLog]_vars

\* Opening and closing with the Qt archive.cpp, which keeps m_FileMap:
\* every way an open can end, close, annotations.
NextFileMap003 ==
  \/ \E a \in OpenPaths : \E f \in OpenFaults_003(a) : open_003(a, TRUE, f)
  \/ close_003
  \/ \E i \in DOMAIN m_FileList, p \in SessionPaths : addOutputFilePath(i, p)
  \/ \E i \in DOMAIN m_FileList : clearOutputFilePaths(i)

SpecFileMap003 == Init /\ [][NextFileMap003]_vars

\* The open-callback adapter: constructed on a file or a directory, with
\* or without a password provider, and asked by the engine in any order
\* for the password, a property or the volume stream, and told sub-archive
\* names, while the file may be replaced or removed.
NextOpenCallback ==
  \/ \E pw \in BOOLEAN, p \in AdapterPaths, kind \in Kinds, info \in BOOLEAN :
       CArchiveOpenCallback(pw, p, kind, info)
  \/ \E provided \in Passwords, alloc \in BOOLEAN :
       CryptoGetTextPassword(provided, alloc)
  \/ \E name \in SubArchiveNames : SetSubArchiveName(name)
  \/ \E propID \in PropIDs : GetProperty(propID)
  \/ \E now \in Kinds, granted \in BOOLEAN, lastError \in LastErrors :
       GetStream(now, granted, lastError)

SpecOpenCallback == Init /\ [][NextOpenCallback]_vars

\* ------------------------------------------------- FileBase and FileIn
\* (src/src/linux/fileio.cpp)

\* static constexpr uint32_t kChunkSizeMax = (1 << 22)
kChunkSizeMax == 4194304

\* The FileBase objects of the process.
FileObjects == 1 .. MaxFiles

\* The descriptor numbers open(2) can hand out.
Descriptors == 3 .. (2 + MaxFds)

\* The descriptors object o acquired, by open(2) or by being move-constructed
\* from their holder, and that are still open and still its own.
Owned(o) == {d \in DOMAIN fds : fds[d] = o}

\* What close(2) can do with an open descriptor: release it and return 0,
\* return -1 having released it (EIO), or return -1 and leave it open.
CloseOutcomes == {"ok", "error_released", "error_open"}

\* close(fd): on a number that is no open descriptor it returns -1 (EBADF).
sys_close(fd, outcome) ==
  IF fd \notin DOMAIN fds THEN [ret |-> -1, fds |-> fds]
  ELSE IF outcome = "ok"
    THEN [ret |-> 0, fds |-> [d \in DOMAIN fds \ {fd} |-> fds[d]]]
  ELSE IF outcome = "error_released"
    THEN [ret |-> -1, fds |-> [d \in DOMAIN fds \ {fd} |-> fds[d]]]
  ELSE [ret |-> -1, fds |-> fds]

\* open(path, flags, mode): the lowest free descriptor number, or -1 when
\* the file cannot be opened or no descriptor is free.
sys_open(held, ok) ==
  LET free == Descriptors \ held IN
    IF ok /\ free # {}
      THEN CHOOSE d \in free : \A o \in free : d <= o
      ELSE -1

\* FileBase::Close on object o
FileBase_Close(o, outcome) ==
  IF m_fd[o] = -1 THEN
    [ret |-> TRUE, m_fd |-> m_fd[o], fds |-> fds, syscalls |-> <<>>]
  ELSE
    LET r == sys_close(m_fd[o], outcome) IN
      IF r.ret = -1 THEN
        [ret |-> FALSE, m_fd |-> m_fd[o], fds |-> r.fds,
         syscalls |-> <<"close=-1">>]
      ELSE
        [ret |-> TRUE, m_fd |-> -1, fds |-> r.fds, syscalls |-> <<"close=0">>]

\* The descriptors with a new one, opened by object o.
Opened(held, fd, o) ==
  IF fd = -1 THEN held
  ELSE [d \in DOMAIN held \cup {fd} |-> IF d = fd THEN o ELSE held[d]]

\* A variant of Create that opens the file without closing first.
FileBase_Create_NoClose(o, outcome, openOk) ==
  LET fd == sys_open(DOMAIN fds, openOk) IN
    [ret |-> fd # -1, m_fd |-> fd, fds |-> Opened(fds, fd, o),
     syscalls |-> <<"open">>]

\* FileBase::Create on object o
FileBase_Create(o, outcome, openOk) ==
  LET c == FileBase_Close(o, outcome) IN
    IF ~c.ret THEN c
    ELSE
      LET fd == sys_open(DOMAIN c.fds, openOk) IN
        [ret |-> fd # -1, m_fd |-> fd, fds |-> Opened(c.fds, fd, o),
         syscalls |-> Append(c.syscalls, "open")]

NewIo(op, o) ==
  [NoIo EXCEPT !.op = op, !.self = o,
               !.preFd = IF o \in DOMAIN m_fd THEN m_fd[o] ELSE -1,
               !.preFds = fds]

BoolRet(b) == IF b THEN "true" ELSE "false"

\* FileBase::FileBase(): a new object, without descriptor.
FileBase(o) ==
  /\ io.ret # "running"
  /\ o \notin DOMAIN m_fd
  /\ m_fd' = [p \in DOMAIN m_fd \cup {o} |-> IF p = o THEN -1 ELSE m_fd[p]]
  /\ io' = [NewIo("FileBase", o) EXCEPT !.ret = "void"]
  /\ UNCHANGED <<fds, nonFileVars>>

\* FileBase::FileBase(FileBase&& other): the new object o takes m_fd of
\* `other`, which is left with -1; no system call is made.
FileBase_Move(o, other) ==
  /\ io.ret # "running"
  /\ o \notin DOMAIN m_fd
  /\ other \in DOMAIN m_fd
  /\ m_fd' = [p \in DOMAIN m_fd \cup {o} |->
                IF p = o THEN m_fd[other] ELSE IF p = other THEN -1
                ELSE m_fd[p]]
  /\ fds' = [d \in DOMAIN fds |->
               IF d = m_fd[other] /\ fds[d] = other THEN o ELSE fds[d]]
  /\ io' = [NewIo("FileBase_Move", other) EXCEPT !.ret = "void"]
  /\ UNCHANGED nonFileVars

\* FileBase::~FileBase(): Close(), whatever it returns, and the object is
\* gone; a descriptor it still had open stays open and is nobody's.
FileBase_Destructor(o, outcome) ==
  /\ io.ret # "running"
  /\ o \in DOMAIN m_fd
  /\ LET r == FileBase_Close(o, outcome) IN
       /\ m_fd' = [p \in DOMAIN m_fd \ {o} |-> m_fd[p]]
       /\ fds' = [d \in DOMAIN r.fds |-> IF r.fds[d] = o THEN 0 ELSE r.fds[d]]
       /\ io' = [NewIo("~FileBase", o) EXCEPT !.ret = "void",
                                             !.syscalls = r.syscalls]
  /\ UNCHANGED nonFileVars

\* A caller calls Close() on object o.
Close(o, outcome) ==
  /\ io.ret # "running"
  /\ o \in DOMAIN m_fd
  /\ LET r == FileBase_Close(o, outcome) IN
       /\ m_fd' = [m_fd EXCEPT ![o] = r.m_fd]
       /\ fds' = r.fds
       /\ io' = [NewIo("Close", o) EXCEPT !.ret = BoolRet(r.ret),
                                         !.syscalls = r.syscalls]
  /\ UNCHANGED nonFileVars

\* FileIn::Open on object o: Create(filepath, O_RDONLY)
Open(o, outcome, openOk) ==
  /\ io.ret # "running"
  /\ o \in DOMAIN m_fd
  /\ LET r == FileBase_Create(o, outcome, openOk) IN
       /\ m_fd' = [m_fd EXCEPT ![o] = r.m_fd]
       /\ fds' = r.fds
       /\ io' = [NewIo("Open", o) EXCEPT !.ret = BoolRet(r.ret),
                                        !.syscalls = r.syscalls]
  /\ UNCHANGED nonFileVars

\* The sizes a caller asks Read for.
ReadSizes ==
  {0, 1, 2, kChunkSizeMax, kChunkSizeMax + 1, 2 * kChunkSizeMax + 1}

\* A variant of ReadPart that hands the whole size to Read1.
ReadPart_NoClip(size) == size

\* FileIn::ReadPart: the size it hands to Read1.
ReadPart(size) == IF size > kChunkSizeMax THEN kChunkSizeMax ELSE size

\* read(m_fd, data, size) on object o: -1 on a number that is no open
\* descriptor or on an I/O error, else the number of bytes read, from none
\* to all.
Read1(o, size) ==
  IF m_fd[o] \notin DOMAIN fds THEN {-1}
  ELSE {-1, 0, size}
         \cup (IF io.short < MaxShortReads
                 THEN {1, size - 1} \cap (1 .. (size - 1))
                 ELSE {})

\* FileIn::Read is called on object o: processedSize = 0, and the loop is
\* entered.
Read(o, size) ==
  /\ io.ret # "running"
  /\ o \in DOMAIN m_fd
  /\ io' = [NewIo("Read", o) EXCEPT !.ret = "running", !.requested = size,
                                    !.size = size]
  /\ UNCHANGED <<m_fd, fds, nonFileVars>>

\* What the passes through the loop have added to processedSize.
RECURSIVE SumParts(_)
SumParts(parts) ==
  IF parts = <<>> THEN 0 ELSE Head(parts) + SumParts(Tail(parts))

\* One pass through the body of the loop of FileIn::Read.
ReadLoop(result) ==
  /\ io.op = "Read" /\ io.ret = "running"
  /\ result \in Read1(io.self, ReadPart(io.size))
  /\ LET res == result # -1
         processedLoc == IF res THEN result ELSE 0
         processedSize == io.processedSize + processedLoc
         size == io.size - processedLoc
     IN io' = [io EXCEPT
                 !.lastReq = ReadPart(io.size),
                 !.syscalls = Append(@, "read"),
                 !.parts = Append(@, processedLoc),
                 !.failed = ~res,
                 !.short = IF 0 < processedLoc /\ processedLoc < ReadPart(io.size)
                             THEN @ + 1 ELSE @,
                 !.processedSize = processedSize,
                 !.size = IF res /\ processedLoc # 0 THEN size ELSE @,
                 !.ret = IF ~res THEN "false"
                         ELSE IF processedLoc = 0 THEN "true"
                         ELSE IF size > 0 THEN "running"
                         ELSE "true"]
  /\ UNCHANGED <<m_fd, fds, nonFileVars>>

\* FileIn objects constructed, move-constructed from one another, opened,
\* closed and destroyed in any order, with a close(2) and an open(2) that
\* may fail.
NextFileIO ==
  \/ \E o \in FileObjects : FileBase(o)
  \/ \E o \in FileObjects, other \in FileObjects : FileBase_Move(o, other)
  \/ \E o \in FileObjects, outcome \in CloseOutcomes :
       FileBase_Destructor(o, outcome)
  \/ \E o \in FileObjects, outcome \in CloseOutcomes : Close(o, outcome)
  \/ \E o \in FileObjects, outcome \in CloseOutcomes, openOk \in BOOLEAN :
       Open(o, outcome, openOk)

SpecFileIO == Init /\ [][NextFileIO]_vars

\* One FileIn object opened, closed and read in any order, with a close(2),
\* an open(2) and a read(2) that may fail or come back short.
NextFileRead ==
  \/ \E outcome \in CloseOutcomes : Close(1, outcome)
  \/ \E outcome \in CloseOutcomes, openOk \in BOOLEAN :
       Open(1, outcome, openOk)
  \/ \E size \in ReadSizes : Read(1, size)
  \/ \E result \in {-1, 0, 1} \cup {ReadPart(io.size) - 1, ReadPart(io.size)} :
       ReadLoop(result)

SpecFileRead == Init /\ [][NextFileRead]_vars

\* Engine faults: every way an open can end, one output path, an
\* extraction with an error callback and no progress or file-change
\* callback, cancel at any moment, and an engine that may fail in extractTo.
NextEngineFaults ==
  \/ \E a \in OpenPaths : \E f \in OpenFaults(a) : open(a, TRUE, f)
  \/ close
  \/ cancel
  \/ \E i \in DOMAIN m_FileList, p \in SessionPaths : addOutputFilePath(i, p)
  \/ \E tmpOk \in BOOLEAN, ub \in Deref(m_ArchivePtr) :
       extract(FALSE, FALSE, TRUE, tmpOk, ub)
  \/ \E thrown \in Thrown : EngineFile(thrown)
  \/ EngineFault
  \/ Catch
  \/ EngineFinish(0, 0)

SpecEngineFaults == Init /\ [][NextEngineFaults]_vars

\* ================================================================== claims

\* C1: in every reachable state the session owns at most one engine handle:
\* an open made while an archive is open releases the earlier handle. Fails:
\* open overwrites m_ArchivePtr and the earlier reader stays alive.
C1_AtMostOneHandle == Cardinality(heap) <= 1

\* C2: extract on a session with no successfully opened archive (never
\* opened, last open failed, or closed) returns false at once, invokes no
\* progress, file-change or error callback and makes no call through the
\* engine handle. Fails: extract tests m_Valid only.
C2_ExtractWithoutArchive ==
  (call.op = "extract" /\ ~call.preOpen) =>
    /\ call.ret = "false"
    /\ call.nProgress = 0 /\ call.nFileChange = 0 /\ call.nError = 0
    /\ ~call.engineCall

\* C3 as stated: an engine handle exists if and only if isValid() is true
\* and getLastError() is NONE. Fails in the state right after construction.
C3_HandleIffValidAndNoError ==
  (m_ArchivePtr # NULL) <=> (m_Valid /\ m_LastError = "ERROR_NONE")

\* C3 as amended: an engine handle exists only if isValid() is true, and
\* right after an open that returned true a handle exists, isValid() is true
\* and getLastError() is NONE.
C3_HandleOnlyIfValid ==
  /\ m_ArchivePtr # NULL => m_Valid
  /\ (call.op = "open" /\ call.ret = "true") =>
       (m_ArchivePtr # NULL /\ m_Valid /\ m_LastError = "ERROR_NONE")

\* C3 witness: a handle is held by a valid session whose error is not NONE.
C3_Witness ==
  m_ArchivePtr # NULL /\ m_Valid /\ m_LastError = "ERROR_LIBRARY_ERROR"

\* C4: an open on a session that has an archive open closes it first: when
\* the call has returned, true or false, the catalog holds no entry of the
\* earlier archive and the earlier handle is released. Fails: open never
\* closes.
C4_ReopenClosesFirst ==
  (call.op = "open" /\ call.ret \in {"true", "false"} /\ call.preHandle # NULL) =>
    /\ call.preHandle \notin heap
    /\ \A i \in DOMAIN m_FileList : m_FileList[i].h # call.preHandle

\* C5: when the engine raises a failure during open, open returns false,
\* the error is FAILED_TO_OPEN_ARCHIVE, the catalog is empty and no handle is
\* held. Fails: the handler of open releases nothing.
C5_EngineFailureLeavesNothing ==
  (call.op = "open" /\ call.fault # "none") =>
    /\ call.ret = "false"
    /\ m_LastError = "ERROR_FAILED_TO_OPEN_ARCHIVE"
    /\ m_FileList = <<>>
    /\ m_ArchivePtr = NULL

\* C6: a progress tick the engine issues after cancel() tells the engine to
\* stop, and the extract call returns false with EXTRACT_CANCELLED. Fails
\* when the tick reaches a relay an earlier extract installed and the present
\* call supplied no progress callback.
C6_TickAfterCancelStops ==
  (call.op = "extract" /\ call.cancelledTick) =>
    /\ call.stop
    /\ \/ call.ret = "running" /\ pc = "catch"
       \/ call.ret = "false" /\ m_LastError = "ERROR_EXTRACT_CANCELLED"

\* C7 as stated: extract ends with EXTRACT_CANCELLED only if the progress
\* relay answered stop during that call; an engine failure that no stop
\* caused ends with LIBRARY_ERROR.
C7_CancelledOnlyIfRelayStopped ==
  (call.op = "extract" /\ call.ret = "false") =>
    /\ m_LastError = "ERROR_EXTRACT_CANCELLED" => call.stop
    /\ (call.threw /\ ~call.stop) => m_LastError = "ERROR_LIBRARY_ERROR"

\* C7 as amended: extract ends with EXTRACT_CANCELLED only if extractTo
\* raised an exception and the cancellation flag was set when the handler
\* read it; an exception handled while the flag is clear ends with
\* LIBRARY_ERROR.
C7_CancelledOnlyIfFlagSetAtCatch ==
  (call.op = "extract" /\ call.ret = "false") =>
    /\ m_LastError = "ERROR_EXTRACT_CANCELLED" => (call.threw /\ call.flagAtCatch)
    /\ (call.threw /\ ~call.flagAtCatch) => m_LastError = "ERROR_LIBRARY_ERROR"

\* C7 witness: the engine failed on its own, the relay never answered stop,
\* cancel() had been called, and the call ended with EXTRACT_CANCELLED.
C7_Witness ==
  /\ call.op = "extract" /\ call.ret = "false"
  /\ call.fault = "extractTo" /\ ~call.stop /\ call.flagAtCatch
  /\ m_LastError = "ERROR_EXTRACT_CANCELLED"

\* C8: extract is idempotent: an extract that directly follows an extract
\* that returned true, with the same annotations and output directory and
\* no failure of the environment, returns true and leaves the same files.
\* Fails: copy_file refuses a destination that exists.
C8_ExtractIdempotent ==
  (/\ call.op = "extract" /\ call.afterExtractOk
   /\ call.ret \in {"true", "false"}
   /\ ~call.tmpFail /\ ~call.fsFault /\ ~call.threw) =>
    (call.ret = "true" /\ fs = call.preFs)

\* C9: after extract returns true, every output path p of every entry
\* exists under the output directory, a directory for a directory entry and
\* otherwise a file with the staged content of the entry; the parent
\* directory of a copied file was created before the copy; nothing is
\* written for an entry without output paths.
C9_RelocationComplete ==
  (call.op = "extract" /\ call.ret = "true") =>
    /\ \A i \in DOMAIN m_FileList : \A j \in DOMAIN m_FileList[i].out :
         fs[m_FileList[i].out[j]] =
           IF m_FileList[i].dir THEN Dir ELSE File(m_FileList[i].crc)
    /\ \A n \in DOMAIN call.log :
         /\ call.log[n].entry \in DOMAIN m_FileList
         /\ m_FileList[call.log[n].entry].out # <<>>
         /\ call.log[n].op = "copy" =>
              \E m \in 1..(n - 1) :
                /\ call.log[m].op = "mkdir"
                /\ call.log[m].path = parent_path(call.log[n].path)
    /\ \A p \in FsPaths :
         fs[p] # call.preFs[p] =>
           \E i \in DOMAIN m_FileList : \E j \in DOMAIN m_FileList[i].out :
             p \in Prefixes(m_FileList[i].out[j])

\* C9 witness: extract returned true with an entry copied to two output
\* paths, one of them below a directory the call created, while another
\* entry had none.
C9_Witness ==
  /\ call.op = "extract" /\ call.ret = "true"
  /\ \E i \in DOMAIN m_FileList :
       /\ ~m_FileList[i].dir
       /\ Len(m_FileList[i].out) = 2
       /\ <<"d", "x">> \in Range(m_FileList[i].out)
       /\ call.preFs[<<"d">>] = Absent
  /\ \E i \in DOMAIN m_FileList : m_FileList[i].out = <<>>

\* C10: the index list handed to extractTo is exactly the catalog positions,
\* ascending, of the entries that have an output path; an entry without one
\* is never in it.
C10_IndicesAreSelection ==
  pc \in {"engine", "catch"} =>
    /\ \A n \in DOMAIN indices :
         /\ indices[n] \in DOMAIN m_FileList
         /\ m_FileList[indices[n]].out # <<>>
    /\ \A i \in DOMAIN m_FileList :
         m_FileList[i].out # <<>> => \E n \in DOMAIN indices : indices[n] = i
    /\ \A m, n \in DOMAIN indices : m < n => indices[m] < indices[n]

\* C10 witness: extractTo is running on a catalog of two entries of which
\* only the second has an output path.
C10_Witness ==
  /\ pc = "engine"
  /\ Len(m_FileList) = 2
  /\ m_FileList[1].out = <<>>
  /\ indices = <<2>>
\* C11: between an open and the next close the caller's password provider
\* is invoked at most once, however often the engine asks, and every request
\* gets the same password, whatever the provider returns. Fails when the
\* provider returns the empty string: nothing is cached and the next request
\* asks the provider again.
C11_ProviderInvokedAtMostOnce ==
  /\ Cardinality({n \in DOMAIN asked : asked[n].invoked}) <= 1
  /\ \A m, n \in DOMAIN asked : asked[m].password = asked[n].password

\* C12: after close() has returned no engine handle is held, the catalog is
\* empty, the cached password is cleared and the cancellation flag is false.
\* Fails: close clears m_PasswordCallback but never m_Password.
C12_CloseClearsEverything ==
  call.op = "close" =>
    /\ m_ArchivePtr = NULL
    /\ m_FileList = <<>>
    /\ m_Password = ""
    /\ ~m_shouldCancel
\* C13: close() may be called any number of times and in any state, and
\* once more from the destructor: no call of it releases an engine handle
\* that was already released. Fails with the close that deletes the reader
\* and leaves m_ArchivePtr pointing at it.
C13_CloseNeverReleasesTwice ==
  call.op \in {"close", "destructor"} => ~call.doubleDelete
\* C14: right after an open or an extract that returned true the error is
\* NONE, whatever an earlier failed call left behind. Fails for extract: its
\* success path never assigns m_LastError (shown for extracts made while an
\* archive is open).
C14_SuccessClearsError ==
  (/\ call.ret = "true"
   /\ call.op = "open" \/ (call.op = "extract" /\ call.preOpen)) =>
    m_LastError = "ERROR_NONE"
\* C15: when no library could be loaded isValid() is false and stays false;
\* every open returns false with LIBRARY_NOT_FOUND, looks nothing up in the
\* file system and creates no handle and no entry.
C15_LibraryMissingIsPermanent ==
  /\ [](~m_Valid =>
          /\ m_LastError = "ERROR_LIBRARY_NOT_FOUND"
          /\ m_ArchivePtr = NULL /\ heap = {} /\ m_FileList = <<>>
          /\ call.op = "open" => (call.ret = "false" /\ ~call.probed))
  /\ [][~m_Valid => ~m_Valid']_vars

\* C15 witness: an open of an existing archive was refused by a session
\* without library.
C15_Witness ==
  ~m_Valid /\ call.op = "open" /\ call.archiveName = "A" /\ call.ret = "false"

\* C16: on a session whose library loaded, open of a path that does not
\* exist or is a directory returns false with ARCHIVE_NOT_FOUND, with or
\* without a password provider; the call does not invoke the provider and
\* creates no engine handle.
C16_ArchiveNotFound ==
  /\ []((m_Valid /\ call.op = "open" /\ call.archiveName \in {"missing", "dir"}) =>
          (call.ret = "false" /\ m_LastError = "ERROR_ARCHIVE_NOT_FOUND"))
  /\ [][(m_Valid /\ call'.op = "open" /\ call'.archiveName \in {"missing", "dir"}) =>
          (heap' = heap /\ m_ArchivePtr' = m_ArchivePtr /\ asked' = asked
           /\ m_Password' = m_Password)]_vars

\* C16 witness: open of a directory, with no password provider, was refused
\* while the session held the handle of an archive.
C16_Witness ==
  /\ call.op = "open" /\ call.archiveName = "dir" /\ call.ret = "false"
  /\ m_LastError = "ERROR_ARCHIVE_NOT_FOUND"
  /\ m_ArchivePtr # NULL /\ ~m_PasswordCallback

\* C17: after an open that returned true the catalog has exactly one entry
\* per item of the archive, in the engine's order, entry i carrying the
\* path, size, CRC and directory flag of item i and no output path, and no
\* entry of an earlier open; after close() the catalog is empty.
C17_CatalogMatchesArchive ==
  /\ (call.op = "open" /\ call.ret = "true") =>
       /\ Len(m_FileList) = Len(Items(call.archiveName))
       /\ \A i \in DOMAIN m_FileList :
            /\ m_FileList[i].path = Items(call.archiveName)[i].path
            /\ m_FileList[i].size = Items(call.archiveName)[i].size
            /\ m_FileList[i].crc = Items(call.archiveName)[i].crc
            /\ m_FileList[i].dir = Items(call.archiveName)[i].dir
            /\ m_FileList[i].out = <<>>
            /\ m_FileList[i].h = m_ArchivePtr
  /\ call.op = "close" => m_FileList = <<>>

\* C17 witness: archive B was opened on a session that held a handle.
C17_Witness ==
  /\ call.op = "open" /\ call.ret = "true" /\ call.archiveName = "B"
  /\ call.preHandle # NULL
  /\ Len(m_FileList) = 1
\* C18: when creating a directory or copying a file fails during
\* relocation, extract stops at that first failure: it returns false with
\* LIBRARY_ERROR, the calls it completed are exactly the calls before the
\* failing one (no later path or entry is attempted), and what they wrote
\* is still there.
C18_StopsAtFirstFailure ==
  (/\ call.op = "extract" /\ call.ret = "false"
   /\ call.extractTo /\ ~call.threw /\ ~call.tmpFail) =>
    LET ops == RelocationOps(m_FileList, 1) IN
    /\ m_LastError = "ERROR_LIBRARY_ERROR"
    /\ Len(call.log) < Len(ops)
    /\ call.log = SubSeq(ops, 1, Len(call.log))
    /\ \A n \in DOMAIN call.log :
         fs[call.log[n].path] =
           IF call.log[n].op = "mkdir" THEN Dir
           ELSE File(m_FileList[call.log[n].entry].crc)
    /\ \A p \in FsPaths :
         fs[p] # call.preFs[p] =>
           \/ \E n \in DOMAIN call.log : p \in Prefixes(call.log[n].path)
           \/ p \in Prefixes(ops[Len(call.log) + 1].path)

\* C18 witness: the relocation failed after it had copied a file, and calls
\* were left that it never made.
C18_Witness ==
  /\ call.op = "extract" /\ call.ret = "false"
  /\ call.extractTo /\ ~call.threw /\ ~call.tmpFail
  /\ \E n \in DOMAIN call.log : call.log[n].op = "copy"
  /\ Len(call.log) + 1 < Len(RelocationOps(m_FileList, 1))

\* C19: for every failure of the relocation the message handed to the error
\* callback contains the path of the call that failed. Fails for the
\* directory of a directory entry: its format string has no replacement
\* field.
C19_MessageNamesPath ==
  (/\ call.op = "extract" /\ call.ret = "false"
   /\ call.extractTo /\ ~call.threw /\ ~call.tmpFail /\ call.nError > 0) =>
    RelocationOps(m_FileList, 1)[Len(call.log) + 1].path
      \in Range(call.message.args)

\* C20: when the staging directory cannot be created extract returns false
\* with OUT_OF_MEMORY, reports through the error callback, never calls
\* extractTo and writes nothing under the output directory.
C20_NoStagingDirectory ==
  (call.op = "extract" /\ call.tmpFail) =>
    /\ call.ret = "false"
    /\ m_LastError = "ERROR_OUT_OF_MEMORY"
    /\ call.nError = 1
    /\ call.message.text = TmpDirFormat.text
    /\ ~call.extractTo
    /\ pc = "idle"
    /\ fs = call.preFs

\* C20 witness: the staging directory could not be created for an extract
\* on an open archive with an annotated entry, after an earlier extract had
\* written to the output directory.
C20_Witness ==
  /\ call.op = "extract" /\ call.tmpFail /\ call.preOpen
  /\ \E i \in DOMAIN m_FileList : m_FileList[i].out # <<>>
  /\ \E p \in FsPaths : fs[p].kind = "file"
\* C21: an exception the engine raises during open (creating the reader,
\* reading its size, counting or enumerating its items) or during extract
\* (extractTo) never reaches the caller: the call returns false and the
\* session holds one error of the taxonomy, FAILED_TO_OPEN_ARCHIVE after
\* open, LIBRARY_ERROR or EXTRACT_CANCELLED after extract.
C21_EngineErrorsCaught ==
  (call.fault # "none" /\ call.ret # "running") =>
     /\ call.ret = "false"
     /\ pc = "idle"
     /\ call.op = "open" => m_LastError = "ERROR_FAILED_TO_OPEN_ARCHIVE"
     /\ call.op = "extract" =>
          m_LastError \in {"ERROR_LIBRARY_ERROR", "ERROR_EXTRACT_CANCELLED"}

\* C21 witness: extractTo raised on an archive whose open had succeeded
\* and extract returned false with LIBRARY_ERROR.
C21_Witness ==
  /\ call.op = "extract" /\ call.preOpen /\ call.fault = "extractTo"
  /\ call.ret = "false" /\ m_LastError = "ERROR_LIBRARY_ERROR"

\* C22: an extract on an open archive that was given an error callback
\* and returns false has invoked that callback exactly once, with a
\* message; one that returns true has not invoked it.
C22_ErrorCallbackOnceOnFailure ==
  (call.op = "extract" /\ call.preOpen /\ m_ErrorCallback) =>
     /\ call.ret = "false" => call.nError = 1 /\ call.message # NoMessage
     /\ call.ret = "true" => call.nError = 0 /\ call.message = NoMessage

\* C22 witness: extract on an open archive failed in the relocation (a
\* file-system call failed after extractTo returned) and the callback was
\* invoked once.
C22_Witness ==
  /\ call.op = "extract" /\ call.preOpen /\ call.ret = "false"
  /\ call.extractTo /\ ~call.threw /\ Len(call.log) < Len(RelocationOps(m_FileList, 1))
  /\ call.nError = 1
\* C23: when an extract on an open archive has returned, the staging
\* directory it created is gone, whether it returned true or false.
C23_StagingDirectoryDeleted ==
  (call.op = "extract" /\ call.preOpen /\ call.ret \in {"true", "false"}) =>
     call.tmpDir # "exists"
\* C24: when cancel() is only ever called while no extraction is running,
\* no extract on an open archive is stopped by the progress relay and none
\* reports EXTRACT_CANCELLED.
C24_IdleCancelHasNoEffect ==
  (call.op = "extract" /\ call.preOpen) =>
     /\ ~call.stop
     /\ call.ret = "false" => m_LastError # "ERROR_EXTRACT_CANCELLED"
\* C30: the log sink of the session is never an empty function, whatever
\* was handed to setLogCallback, and neither the constructor nor open has
\* invoked an empty one: no open ends in std::bad_function_call.
C30_LogSinkCallable ==
  /\ m_LogCallback # EmptyFunction
  /\ call.logSink # EmptyFunction
  /\ call.op = "open" => call.ret \in {"true", "false"}

\* C30 witness: setLogCallback was handed an empty callback while an
\* archive was open, and the session holds the default sink.
C30_Witness ==
  /\ call.op = "setLogCallback" /\ call.logCallback = EmptyFunction
  /\ m_LogCallback = DefaultLogCallback
  /\ opened
\* C25: in every reachable state the keys of the path-to-index lookup are
\* exactly the paths of the entries of the catalog (none when no archive
\* is open) and each path maps to the engine index of its entry.
C25_FileMapMatchesCatalog ==
  /\ DOMAIN m_FileMap = {m_FileList[i].path : i \in DOMAIN m_FileList}
  /\ \A i \in DOMAIN m_FileList : m_FileMap[m_FileList[i].path] = i - 1
\* C26: for a directory entry the relocation makes no file copy, only
\* create_directories on the requested output paths themselves; when
\* extract returns true every output path requested for a directory entry
\* is a directory of the output directory.
C26_DirectoryEntriesAreCreated ==
  (call.op = "extract" /\ call.preOpen /\ call.ret \in {"true", "false"}) =>
     \A i \in DOMAIN m_FileList : m_FileList[i].dir =>
        /\ \A n \in DOMAIN call.log : call.log[n].entry = i =>
              /\ call.log[n].op = "mkdir"
              /\ call.log[n].path \in Range(m_FileList[i].out)
        /\ call.ret = "true" =>
              \A j \in DOMAIN m_FileList[i].out :
                 /\ fs[m_FileList[i].out[j]] = Dir
                 /\ \E n \in DOMAIN call.log :
                      call.log[n] = [op |-> "mkdir", path |-> m_FileList[i].out[j],
                                     entry |-> i]

\* C26 witness: extract returned true for a directory entry with two
\* output paths, one of them nested, that did not exist before.
C26_Witness ==
  /\ call.op = "extract" /\ call.preOpen /\ call.ret = "true"
  /\ \E i \in DOMAIN m_FileList :
        /\ m_FileList[i].dir
        /\ Len(m_FileList[i].out) = 2
        /\ \E j \in DOMAIN m_FileList[i].out :
              /\ Len(m_FileList[i].out[j]) = 2
              /\ call.preFs[m_FileList[i].out[j]] = Absent
\* C27: however often the engine asks the adapter for the password, the
\* password provider has been invoked at most once since the adapter was
\* constructed; an adapter without a provider answers E_ABORT and invokes
\* nothing.
C27_AdapterAsksProviderOnce ==
  /\ request.invoked <= 1
  /\ (request.op = "CryptoGetTextPassword" /\ ~openCallback.m_PasswordCallback)
       => request.hr = "E_ABORT" /\ request.invoked = 0

\* C28: the adapter answers a name query with the file name of the path
\* it was constructed on as long as no sub-archive name was pushed, and
\* with the last name pushed afterwards; it answers a size query with the
\* size of the file it was constructed on.
C28_NameAndSize ==
  (request.op = "GetProperty" /\ request.arg \in {"kpidName", "kpidSize"}) =>
     /\ request.hr = "S_OK"
     /\ request.arg = "kpidName" =>
          request.value = IF request.pushed = "none"
                            THEN openCallback.m_Path[Len(openCallback.m_Path)]
                            ELSE request.pushed
     /\ request.arg = "kpidSize" =>
          request.value = FileSize(openCallback.m_Path)

\* C28 witness: a name query answered with the second of two different
\* sub-archive names pushed to an adapter constructed on a nested path.
C28_Witness ==
  /\ request.op = "GetProperty" /\ request.arg = "kpidName"
  /\ Len(openCallback.m_Path) = 2
  /\ request.pushed = "other.tar" /\ request.value = "other.tar"

\* C29: a volume-stream request made when the file is missing or a
\* directory is there does not succeed and leaves the output stream null,
\* with S_FALSE when the file is missing or the adapter was constructed on
\* a directory; every request that does not return S_OK leaves the output
\* stream null, and one that returns S_OK hands out a stream opened for
\* reading on the adapter's file.
C29_GetStream ==
  request.op = "GetStream" =>
     /\ request.now \in {"missing", "dir"} =>
          request.hr # "S_OK" /\ request.stream = "nullptr"
     /\ (request.now = "missing" \/ openCallback.m_FileInfo.isDir) =>
          request.hr = "S_FALSE"
     /\ request.hr # "S_OK" => request.stream = "nullptr"
     /\ request.hr = "S_OK" =>
          /\ request.now = "file"
          /\ request.stream = [path |-> openCallback.m_Path,
                               access |-> "GENERIC_READ"]

\* C29 witness: the file exists but the platform refused to open it, and
\* the request returned the error with a null stream.
C29_Witness ==
  /\ request.op = "GetStream" /\ request.now = "file"
  /\ request.hr \in LastErrors
  /\ request.stream = "nullptr"
\* C31: an extract call invokes extractTo at most once; as long as
\* extractTo has not returned, nothing is created or copied under the
\* output directory, and when extractTo ended in an exception, a
\* cancellation included, the call leaves the output directory as it found
\* it.
C31_ExtractToOnceBeforeRelocation ==
  call.op = "extract" =>
     /\ call.nExtractTo <= 1
     /\ pc \in {"engine", "catch"} => fs = call.preFs /\ call.log = <<>>
     /\ (call.log # <<>> \/ fs # call.preFs) =>
          call.nExtractTo = 1 /\ ~call.threw
     /\ (call.threw \/ call.ret = "exception") =>
          fs = call.preFs /\ call.log = <<>>

\* C31 witness: an extract with an annotated entry was stopped by the
\* progress relay and returned false with EXTRACT_CANCELLED.
C31_Witness ==
  /\ call.op = "extract" /\ call.preOpen /\ call.ret = "false"
  /\ call.stop /\ m_LastError = "ERROR_EXTRACT_CANCELLED"
  /\ CountOut(m_FileList, Len(m_FileList)) > 0
  /\ call.nExtractTo = 1
\* C32 (does not hold: an open that fails after size() has already
\* overwritten m_Total): on a session where an open has returned true, when
\* the call supplied a progress callback, the last progress tick of the
\* engine was handed to it as (EXTRACTION, the byte count of the tick, the
\* total recorded at the last open that returned true), and the relay
\* answered stop exactly if the cancellation flag was set at that tick;
\* when it supplied a file-change callback, the last file notification was
\* handed to it as (EXTRACTION_START, the path the engine passed).
C32_RelayArguments ==
  (call.op = "extract" /\ call.openTotal > 0) =>
     /\ (m_ProgressCallback /\ call.nProgress > 0) =>
          /\ call.progress = <<"EXTRACTION", call.tick, call.openTotal>>
          /\ call.stop <=> call.cancelledTick
     /\ (m_FileChangeCallback /\ call.nFileChange > 0) =>
          call.fileChange = <<"EXTRACTION_START", call.path>>
\* C33: the cancellation flag goes from set to clear only in close(); an
\* extract that returned false with ERROR_EXTRACT_CANCELLED leaves it set;
\* and an extract on the still open archive that starts after a cancelled
\* one and supplies a progress callback is stopped at its first progress
\* tick.
C33_FlagSurvivesUntilClose ==
  /\ [][(m_shouldCancel /\ ~m_shouldCancel') => call'.op = "close"]_vars
  /\ []((call.op = "extract" /\ pc = "idle" /\ call.ret = "false"
          /\ m_LastError = "ERROR_EXTRACT_CANCELLED") => m_shouldCancel)
  /\ []((/\ call.op = "extract" /\ call.preOpen
          /\ pc \in {"engine", "catch"}
          /\ m_LastError = "ERROR_EXTRACT_CANCELLED"
          /\ m_ProgressCallback /\ call.nProgress >= 1)
         => (call.stop /\ call.nProgress = 1))

\* C33 witness: a second extract, started after a cancelled one, was
\* stopped at its first tick.
C33_Witness ==
  /\ call.op = "extract" /\ call.preOpen /\ pc = "catch"
  /\ m_LastError = "ERROR_EXTRACT_CANCELLED"
  /\ m_ProgressCallback /\ call.stop /\ call.nProgress = 1
\* C34 (does not hold: a relay installed on the reader by an earlier extract
\* stays installed): during extract no relay calls an empty callback; a
\* progress callback is invoked only if this call supplied one, and so is a
\* file-change callback.
C34_NoStaleRelay ==
  call.op = "extract" =>
    /\ call.emptyCallback = "none"
    /\ call.nProgress > 0 => m_ProgressCallback
    /\ call.nFileChange > 0 => m_FileChangeCallback
\* C35: whenever open or extract has returned false, the last error is not
\* ERROR_NONE.
C35_FalseHasError ==
  (call.op \in {"open", "extract"} /\ call.ret = "false")
     => m_LastError # "ERROR_NONE"

\* C35 witness: an extract on an archive whose open had reset the last error
\* to ERROR_NONE failed in the engine and returned false.
C35_Witness ==
  /\ call.op = "extract" /\ call.preOpen /\ call.ret = "false"
  /\ call.threw /\ ~call.flagAtCatch
  /\ m_LastError = "ERROR_LIBRARY_ERROR"
\* C36: no step of extract (its entry, the engine's steps, the handler, the
\* relocation and the return) changes the catalog (entries, their order,
\* their output paths), the archive handle, the reader it points to or
\* whether the archive is open.
C36_ExtractKeepsCatalog ==
  [][(pc # "idle" \/ pc' # "idle" \/ (call'.op = "extract" /\ call' # call))
       => UNCHANGED <<m_FileList, m_ArchivePtr, heap, opened, reader.arc>>]_vars

\* C36 witness: an extract of an open archive with annotated entries has
\* returned true, the entries still carry their output paths and the
\* archive is still open.
C36_Witness ==
  /\ call.op = "extract" /\ call.preOpen /\ call.ret = "true"
  /\ CountOut(m_FileList, Len(m_FileList)) > 0
  /\ m_ArchivePtr # NULL /\ m_ArchivePtr \in heap /\ opened
\* C37: a FileBase object never has more than one open descriptor of its
\* own, and one it has is the one in m_fd; Create (through FileIn::Open) on
\* an object that holds a descriptor calls close first and does not call
\* open when that close failed, and after a successful Create the object
\* has just the new descriptor; Close on an object without a descriptor
\* returns true without a system call and changes nothing; after a Close
\* that returned true the object has no descriptor.
C37_OneDescriptor ==
  /\ \A o \in DOMAIN m_fd :
       /\ Cardinality(Owned(o)) <= 1
       /\ Owned(o) \subseteq {m_fd[o]}
  /\ io.op = "Open" =>
       /\ io.preFd # -1 => io.syscalls[1] \in {"close=0", "close=-1"}
       /\ io.preFd = -1 => io.syscalls = <<"open">>
       /\ "close=-1" \in Range(io.syscalls) =>
            /\ "open" \notin Range(io.syscalls)
            /\ io.ret = "false"
            /\ m_fd[io.self] = io.preFd
       /\ io.ret = "true" =>
            (m_fd[io.self] # -1 /\ Owned(io.self) = {m_fd[io.self]})
  /\ io.op = "Close" =>
       /\ io.preFd = -1 =>
            (io.ret = "true" /\ io.syscalls = <<>> /\ m_fd[io.self] = -1
             /\ fds = io.preFds)
       /\ io.ret = "true" => (m_fd[io.self] = -1 /\ Owned(io.self) = {})

\* C37 witness: Open succeeded on an object that had an open descriptor of
\* its own, while another object had one too.
C37_Witness ==
  /\ io.op = "Open" /\ io.ret = "true"
  /\ io.preFd \in DOMAIN io.preFds /\ io.preFds[io.preFd] = io.self
  /\ io.syscalls = <<"close=0", "open">>
  /\ Owned(io.self) = {m_fd[io.self]}
  /\ \E o \in DOMAIN m_fd : o # io.self /\ Owned(o) # {}
\* C38: in FileIn::Read no underlying read asks for more than kChunkSizeMax
\* bytes; processedSize is the sum of what the reads returned and never
\* exceeds the size asked for; Read returns true with fewer bytes than asked
\* for only when the last read returned 0; it returns false exactly when a
\* read failed, at that read; it makes at least one read and no more reads
\* than bytes asked for (one when none is asked for), and every pass that
\* goes round the loop again has made the remaining size smaller.
C38_ReadChunks ==
  /\ [](io.op = "Read" =>
          /\ io.lastReq <= kChunkSizeMax
          /\ io.processedSize = SumParts(io.parts)
          /\ io.processedSize <= io.requested
          /\ io.size + io.processedSize = io.requested
          /\ (io.ret = "true" /\ io.processedSize < io.requested)
               => io.parts[Len(io.parts)] = 0
          /\ io.failed <=> io.ret = "false"
          /\ io.ret # "running" => Len(io.parts) >= 1
          /\ Len(io.parts) <= (IF io.requested = 0 THEN 1 ELSE io.requested))
  /\ [][(io.op = "Read" /\ io.ret = "running" /\ io'.ret = "running")
          => io'.size < io.size]_vars

\* C38 witness: a Read of two chunks and one byte returned true after
\* three reads of a chunk, a chunk and one byte.
C38_Witness ==
  /\ io.op = "Read" /\ io.ret = "true"
  /\ io.requested = 2 * kChunkSizeMax + 1
  /\ io.parts = <<kChunkSizeMax, kChunkSizeMax, 1>>
  /\ io.processedSize = io.requested
====
